---- MODULE Spec2Model ----
(***************************************************************************)
(* Collision and physics core of fleeting-glimpse: vectors, geometric       *)
(* primitives (Line, Triangle, Ray, Capsule, Bounds), the BVH and the       *)
(* per-entity physics step.                                                 *)
(*                                                                          *)
(* Numbers.  A JavaScript number is modelled as an extended rational        *)
(* <<n, d>> in lowest terms with d >= 0:  <<1,0>> is Infinity, <<-1,0>> is  *)
(* -Infinity and <<0,0>> is NaN, with the IEEE rules for their arithmetic   *)
(* and comparisons.  Finite arithmetic is exact (no rounding, no signed     *)
(* zero); Math.sqrt is exact on squares of rationals and is rounded down to *)
(* a multiple of 1/SqrtDen elsewhere.                                       *)
(***************************************************************************)
EXTENDS Integers, Sequences, FiniteSets, TLC

(***************************************************************************)
(* Bounds of the model                                                      *)
(***************************************************************************)
\* largest number of triangles handed to BVH.init
MaxTris == 2

\* ray origins and capsule centres range over -MaxCoord..MaxCoord on y
MaxCoord == 2

\* denominator of the rounding grid of inexact square roots
SqrtDen == 64

\* physics ticks stop once the entity is more than MaxFall below the origin
MaxFall == 12

\* physics ticks stop once the entity is more than MaxWalk from the origin along x
MaxWalk == 2

\* the browser runs at most MaxFrames animation frames
MaxFrames == 4

\* a query hands at most MaxContacts contacts to the resolution
MaxContacts == 3

(***************************************************************************)
(* Numbers                                                                  *)
(***************************************************************************)
Abs(n) == IF n < 0 THEN -n ELSE n

Sign(n) == IF n < 0 THEN -1 ELSE IF n > 0 THEN 1 ELSE 0

RECURSIVE GCD(_, _)
GCD(a, b) == IF b = 0 THEN a ELSE GCD(b, a % b)

\* the number n/d, in lowest terms; d = 0 gives Infinity, -Infinity or NaN
Norm(n, d) ==
  IF d = 0 THEN <<Sign(n), 0>>
  ELSE LET g == GCD(Abs(n), Abs(d))
       IN  IF d < 0 THEN <<(-n) \div g, (-d) \div g>> ELSE <<n \div g, d \div g>>

Q(n) == <<n, 1>>

Infinity == <<1, 0>>

NegInfinity == <<-1, 0>>

NaN == <<0, 0>>

IsNaN(a) == a = NaN

IsFinite(a) == a[2] # 0

\* a + b, over the least common denominator
RAdd(a, b) ==
  IF a[2] = 0 /\ b[2] = 0
  THEN (IF a[1] = b[1] THEN a ELSE NaN)
  ELSE IF a[2] = 0 \/ b[2] = 0
  THEN Norm(a[1] * b[2] + b[1] * a[2], 0)
  ELSE LET g == GCD(a[2], b[2])
       IN  Norm(a[1] * (b[2] \div g) + b[1] * (a[2] \div g), (a[2] \div g) * b[2])

RNeg(a) == <<-a[1], a[2]>>

RSub(a, b) == RAdd(a, RNeg(b))

\* a * b, cancelling common factors before multiplying
RMul(a, b) ==
  IF a[2] = 0 \/ b[2] = 0 \/ a[1] = 0 \/ b[1] = 0
  THEN Norm(a[1] * b[1], a[2] * b[2])
  ELSE LET g1 == GCD(Abs(a[1]), b[2])
           g2 == GCD(Abs(b[1]), a[2])
       IN  <<(a[1] \div g1) * (b[1] \div g2), (a[2] \div g2) * (b[2] \div g1)>>

\* a / b: a times the reciprocal of b where b is finite and not zero
RDiv(a, b) ==
  IF b[2] = 0 \/ b[1] = 0 \/ a[2] = 0
  THEN (IF b[1] < 0 THEN Norm(-(a[1] * b[2]), a[2] * (-b[1]))
        ELSE Norm(a[1] * b[2], a[2] * b[1]))
  ELSE RMul(a, IF b[1] < 0 THEN <<-b[2], -b[1]>> ELSE <<b[2], b[1]>>)

\* a < b; false when either side is NaN
RLt(a, b) ==
  IF IsNaN(a) \/ IsNaN(b) THEN FALSE
  ELSE IF a[2] = 0 /\ b[2] = 0 THEN a[1] < b[1]
  ELSE IF a[2] = 0 \/ b[2] = 0 THEN a[1] * b[2] < b[1] * a[2]
  ELSE LET g == GCD(a[2], b[2])
       IN  a[1] * (b[2] \div g) < b[1] * (a[2] \div g)

RGt(a, b) == RLt(b, a)

\* a === b
REq(a, b) == ~IsNaN(a) /\ a = b

RLe(a, b) == RLt(a, b) \/ REq(a, b)

RGe(a, b) == RLe(b, a)

\* Math.max and Math.min: NaN if either argument is NaN
RMax(a, b) == IF IsNaN(a) \/ IsNaN(b) THEN NaN ELSE IF RLt(a, b) THEN b ELSE a

RMin(a, b) == IF IsNaN(a) \/ IsNaN(b) THEN NaN ELSE IF RLt(b, a) THEN b ELSE a

\* the digit k below 32 with (base + k * step)^2 <= n < (base + (k + 1) * step)^2
SqrtDigit(n, base, step) ==
  CHOOSE k \in 0..31 :
    /\ (base + k * step) * (base + k * step) <= n
    /\ (k = 31 \/ (base + (k + 1) * step) * (base + (k + 1) * step) > n)

\* floor of the square root of a natural number below 2^30, digit by digit
\* in base 32
ISqrt(n) ==
  LET a == SqrtDigit(n, 0, 1024)
      b == SqrtDigit(n, a * 1024, 32)
  IN  a * 1024 + b * 32 + SqrtDigit(n, a * 1024 + b * 32, 1)

IsSquare(n) == ISqrt(n) * ISqrt(n) = n

\* Math.sqrt
RSqrt(a) ==
  IF IsNaN(a) \/ a[1] < 0 THEN NaN
  ELSE IF a[2] = 0 THEN Infinity
  ELSE IF IsSquare(a[1]) /\ IsSquare(a[2]) THEN <<ISqrt(a[1]), ISqrt(a[2])>>
  ELSE Norm(ISqrt((a[1] * SqrtDen * SqrtDen) \div a[2]), SqrtDen)

\* the result, once the values before it have been evaluated in order
Do(values, result) == <<values, result>>[2]

(***************************************************************************)
(* Vector3 (math/vector3.ts)                                                *)
(***************************************************************************)
Vector3(x, y, z) == [x |-> x, y |-> y, z |-> z]

\* a vector with integer components
Vec(x, y, z) == Vector3(Q(x), Q(y), Q(z))

zero == Vec(0, 0, 0)

yAxis == Vec(0, 1, 0)

add(a, b) == Vector3(RAdd(a.x, b.x), RAdd(a.y, b.y), RAdd(a.z, b.z))

subtract(a, b) == Vector3(RSub(a.x, b.x), RSub(a.y, b.y), RSub(a.z, b.z))

multiply(a, s) == Vector3(RMul(a.x, s), RMul(a.y, s), RMul(a.z, s))

divide(a, s) == Vector3(RDiv(a.x, s), RDiv(a.y, s), RDiv(a.z, s))

dot(a, b) == RAdd(RAdd(RMul(a.x, b.x), RMul(a.y, b.y)), RMul(a.z, b.z))

cross(a, b) ==
  Vector3(RSub(RMul(a.y, b.z), RMul(a.z, b.y)),
          RSub(RMul(a.z, b.x), RMul(a.x, b.z)),
          RSub(RMul(a.x, b.y), RMul(a.y, b.x)))

magnitude(a) == RSqrt(dot(a, a))

\* the unit vector without the test for a zero magnitude
unit_magnitude_Unguarded(a, length) == divide(a, length)

\* the unit vector of a, whose magnitude is length
unit_magnitude(a, length) ==
  Do(<<length>>, IF REq(length, Q(0)) THEN zero ELSE divide(a, length))

unit(a) == unit_magnitude(a, magnitude(a))

\* direction.multiply(direction.dot(a)) for direction = vector.unit
getParallelComponent_unit(a, direction) ==
  Do(<<direction>>, multiply(direction, dot(direction, a)))

getParallelComponent(a, v) == getParallelComponent_unit(a, unit(v))

\* a.subtract(parallel) for parallel = a.getParallelComponent(vector)
getOrthogonalComponent_parallel(a, parallel) == Do(<<parallel>>, subtract(a, parallel))

getOrthogonalComponent(a, v) ==
  getOrthogonalComponent_parallel(a, getParallelComponent(a, v))

\* Util.clamp
clamp(n, lo, hi) == RMax(RMin(n, hi), lo)

(***************************************************************************)
(* Float32Array: a number stored in one is rounded to single precision, a   *)
(* significand of MantissaBits bits.  Magnitudes stay below 2^MantissaBits  *)
(* and the rounding grid is never finer than 2^-MaxScale.                   *)
(***************************************************************************)
MantissaBits == 24

MaxScale == 30

RECURSIVE Pow2(_)
Pow2(k) == IF k = 0 THEN 1 ELSE 2 * Pow2(k - 1)

RECURSIVE IsPow2(_)
IsPow2(d) == d = 1 \/ (d % 2 = 0 /\ IsPow2(d \div 2))

RECURSIVE Log2(_)
\* the e with 2^e <= k < 2^(e + 1), for k >= 1
Log2(k) == IF k < 2 THEN 0 ELSE 1 + Log2(k \div 2)

RECURSIVE NegExp(_, _)
\* the least j with n * 2^j >= d, for 0 < n < d
NegExp(n, d) == IF n >= d THEN 0 ELSE 1 + NegExp(2 * n, d)

RECURSIVE Scaled(_, _, _, _)
\* <<quotient, remainder>> of (q * d + r) * 2^s by d, one binary digit at a time
Scaled(q, r, d, s) ==
  IF s = 0 THEN <<q, r>>
  ELSE Scaled(2 * q + (IF 2 * r >= d THEN 1 ELSE 0), (2 * r) % d, d, s - 1)

\* the quotient rounded to nearest, ties to even
fround_quotient(sign, qr, d, s) ==
  Norm(sign * (IF 2 * qr[2] > d \/ (2 * qr[2] = d /\ qr[1] % 2 = 1) THEN qr[1] + 1 ELSE qr[1]),
       Pow2(s))

\* the single nearest to n/d, 2^-s being the spacing of the singles around it
fround_scale(n, d, s) ==
  fround_quotient(Sign(n), Scaled(Abs(n) \div d, Abs(n) % d, d, s), d, s)

\* the value a number has once stored in a Float32Array
fround(a) ==
  IF a[2] = 0 \/ a[1] = 0 THEN a
  ELSE IF IsPow2(a[2]) /\ Abs(a[1]) < Pow2(MantissaBits) THEN a
  ELSE IF Abs(a[1]) >= a[2]
  THEN fround_scale(a[1], a[2], MantissaBits - 1 - Log2(Abs(a[1]) \div a[2]))
  ELSE fround_scale(a[1], a[2],
                    IF MantissaBits - 1 + NegExp(Abs(a[1]), a[2]) > MaxScale THEN MaxScale
                    ELSE MantissaBits - 1 + NegExp(Abs(a[1]), a[2]))

(***************************************************************************)
(* Matrix4 (math/matrix4.ts): sixteen numbers in row-major order, held in   *)
(* a Float32Array.                                                          *)
(***************************************************************************)
\* Matrix4.create
create(values) == [k \in 1..16 |-> fround(values[k])]

identity ==
  create(<< Q(1), Q(0), Q(0), Q(0),
            Q(0), Q(1), Q(0), Q(0),
            Q(0), Q(0), Q(1), Q(0),
            Q(0), Q(0), Q(0), Q(1) >>)

fromPosition(position) ==
  create(<< Q(1), Q(0), Q(0), position.x,
            Q(0), Q(1), Q(0), position.y,
            Q(0), Q(0), Q(1), position.z,
            Q(0), Q(0), Q(0), Q(1) >>)

\* fromLookVector from the cross products on, look and up being unit vectors
fromLookVector_right(look, right) ==
  Do(<<right>>,
     create(<< right.x, unit(cross(look, right)).x, look.x, Q(0),
               right.y, unit(cross(look, right)).y, look.y, Q(0),
               right.z, unit(cross(look, right)).z, look.z, Q(0),
               Q(0), Q(0), Q(0), Q(1) >>))

\* fromLookVector for the negated unit look vector and the default up
fromLookVector_look(look) ==
  Do(<<look>>,
     fromLookVector_right(look,
       unit(cross(IF REq(dot(look, yAxis), Q(1))
                  THEN (IF RGt(<<Abs(look.y[1]), look.y[2]>>, <<9, 10>>) THEN Vec(0, 0, 1)
                        ELSE yAxis)
                  ELSE yAxis,
                  look))))

\* Matrix4.fromLookVector(look)
fromLookVector(look) == fromLookVector_look(multiply(unit(look), Q(-1)))

\* Matrix4.lookVector
lookVector(m) == Vector3(RNeg(m[3]), RNeg(m[7]), RNeg(m[11]))

\* dotSum of row r of m with column c of n (r, c in 0..3)
MatrixDotSum(m, n, r, c) ==
  RAdd(RAdd(RAdd(RAdd(Q(0), RMul(m[r * 4 + 1], n[c + 1])),
                 RMul(m[r * 4 + 2], n[c + 5])),
            RMul(m[r * 4 + 3], n[c + 9])),
       RMul(m[r * 4 + 4], n[c + 13]))

\* Matrix4.multiply
matrixMultiply(m, n) ==
  [k \in 1..16 |-> fround(MatrixDotSum(m, n, (k - 1) \div 4, (k - 1) % 4))]

\* the newValues of Matrix4.apply: row r of m times vecValues, for each r
apply_newValues(m, vecValues) ==
  [r \in 1..4 |->
     fround(RAdd(RAdd(RAdd(RAdd(Q(0), RMul(m[(r - 1) * 4 + 1], vecValues[1])),
                           RMul(m[(r - 1) * 4 + 2], vecValues[2])),
                      RMul(m[(r - 1) * 4 + 3], vecValues[3])),
                 RMul(m[(r - 1) * 4 + 4], vecValues[4])))]

\* the vector Matrix4.apply returns for newValues
apply_return(newValues) ==
  Do(<<newValues>>,
     Vector3(RDiv(newValues[1], newValues[4]),
             RDiv(newValues[2], newValues[4]),
             RDiv(newValues[3], newValues[4])))

\* Matrix4.apply
apply(m, vector) ==
  apply_return(apply_newValues(m, <<fround(vector.x), fround(vector.y), fround(vector.z),
                                    fround(Q(1))>>))

(***************************************************************************)
(* Bounds (collisions/collisions.ts)                                        *)
(***************************************************************************)
Bounds(min, max) ==
  [min |-> min, max |-> max,
   dimensions |-> subtract(max, min),
   center |-> divide(add(min, max), Q(2))]

RECURSIVE MinOver(_, _, _, _)
\* the running minimum of fromPoints on one axis, from point i on
MinOver(points, axis, i, acc) ==
  IF i > Len(points) THEN acc
  ELSE MinOver(points, axis, i + 1,
               IF RLt(points[i][axis], acc) THEN points[i][axis] ELSE acc)

RECURSIVE MaxOver(_, _, _, _)
\* the running maximum of fromPoints on one axis, from point i on
MaxOver(points, axis, i, acc) ==
  IF i > Len(points) THEN acc
  ELSE MaxOver(points, axis, i + 1,
               IF RGt(points[i][axis], acc) THEN points[i][axis] ELSE acc)

\* Bounds.fromPoints
fromPoints(points, radius) ==
  Bounds(Vector3(RSub(MinOver(points, "x", 1, Infinity), radius),
                 RSub(MinOver(points, "y", 1, Infinity), radius),
                 RSub(MinOver(points, "z", 1, Infinity), radius)),
         Vector3(RAdd(MaxOver(points, "x", 1, NegInfinity), radius),
                 RAdd(MaxOver(points, "y", 1, NegInfinity), radius),
                 RAdd(MaxOver(points, "z", 1, NegInfinity), radius)))

\* overlaps with the separation demanded on all three axes at once
overlaps_AllAxes(this, bounds) ==
  IF /\ (RGt(this.min.x, bounds.max.x) \/ RGt(bounds.min.x, this.max.x))
     /\ (RGt(this.min.y, bounds.max.y) \/ RGt(bounds.min.y, this.max.y))
     /\ (RGt(this.min.z, bounds.max.z) \/ RGt(bounds.min.z, this.max.z))
  THEN FALSE
  ELSE TRUE

\* overlaps testing only whether this box lies beyond the other one
overlaps_ThisBeyond(this, bounds) ==
  IF \/ RGt(this.min.x, bounds.max.x)
     \/ RGt(this.min.y, bounds.max.y)
     \/ RGt(this.min.z, bounds.max.z)
  THEN FALSE
  ELSE TRUE

\* Bounds.overlaps
overlaps(this, bounds) ==
  IF \/ (RGt(this.min.x, bounds.max.x) \/ RGt(bounds.min.x, this.max.x))
     \/ (RGt(this.min.y, bounds.max.y) \/ RGt(bounds.min.y, this.max.y))
     \/ (RGt(this.min.z, bounds.max.z) \/ RGt(bounds.min.z, this.max.z))
  THEN FALSE
  ELSE TRUE

(***************************************************************************)
(* Line                                                                     *)
(***************************************************************************)
Line(start, end) == [start |-> start, end |-> end, direction |-> subtract(end, start)]

\* closestPointTo for direction = this.direction.unit
closestPointTo_unit(line, reference, direction) ==
  Do(<<direction>>,
     add(line.start,
         multiply(direction,
                  clamp(dot(subtract(reference, line.start), direction),
                        Q(0), magnitude(line.direction)))))

\* Line.closestPointTo
closestPointTo(line, reference) == closestPointTo_unit(line, reference, unit(line.direction))

\* getPlaneIntersection from the range check on, t being known
getPlaneIntersection_t(line, infiniteRange, t) ==
  Do(<<t>>,
     IF ~infiniteRange /\ (RLt(t, Q(0)) \/ RGt(t, Q(1))) THEN <<>>
     ELSE <<add(line.start, multiply(line.direction, t))>>)

\* getPlaneIntersection from the test of normalDot on
getPlaneIntersection_normalDot(line, planePoint, planeNormal, infiniteRange, normalDot) ==
  Do(<<normalDot>>,
     IF REq(normalDot, Q(0)) THEN <<>>
     ELSE getPlaneIntersection_t(line, infiniteRange,
            RDiv(dot(planeNormal, subtract(planePoint, line.start)), normalDot)))

\* Line.getPlaneIntersection; <<>> is undefined, <<p>> the point p
getPlaneIntersection(line, planePoint, planeNormal, infiniteRange) ==
  getPlaneIntersection_normalDot(line, planePoint, planeNormal, infiniteRange,
                                 dot(planeNormal, line.direction))

(***************************************************************************)
(* Triangle                                                                 *)
(***************************************************************************)
\* the triangle with its derived fields, edgeCross being known
Triangle_edgeCross(v0, v1, v2, edge1, edge2, edgeCross) ==
  [v0 |-> v0, v1 |-> v1, v2 |-> v2,
   centroid |-> divide(add(add(v0, v1), v2), Q(3)),
   bounds |-> fromPoints(<<v0, v1, v2>>, Q(0)),
   edge1 |-> edge1,
   edge2 |-> edge2,
   edgeCross |-> edgeCross,
   normal |-> unit(edgeCross),
   edges |-> <<Line(v0, v1), Line(v1, v2), Line(v2, v0)>>]

\* the triangle whose cross product is edge2 x edge1: the left-hand winding
Triangle_edges_LeftHanded(v0, v1, v2, edge1, edge2) ==
  Triangle_edgeCross(v0, v1, v2, edge1, edge2, cross(edge2, edge1))

\* the triangle with its derived fields, edge1 and edge2 being known
Triangle_edges(v0, v1, v2, edge1, edge2) ==
  Triangle_edgeCross(v0, v1, v2, edge1, edge2, cross(edge1, edge2))

\* new Triangle(v0, v1, v2), with the fields its constructor derives
Triangle(v0, v1, v2) == Triangle_edges(v0, v1, v2, subtract(v1, v0), subtract(v2, v0))

RECURSIVE ClosestOnEdges(_, _, _, _, _)
\* one turn of the edge loop from its comparison on, point and distance
\* being known
ClosestOnEdges_distance(triangle, reference, i, closestDist, closestPt, point, distance) ==
  Do(<<distance>>,
     IF RLt(distance, closestDist)
     THEN ClosestOnEdges(triangle, reference, i + 1, distance, point)
     ELSE ClosestOnEdges(triangle, reference, i + 1, closestDist, closestPt))

\* one turn of the edge loop, point being known
ClosestOnEdges_point(triangle, reference, i, closestDist, closestPt, point) ==
  Do(<<point>>,
     ClosestOnEdges_distance(triangle, reference, i, closestDist, closestPt, point,
                             magnitude(subtract(reference, point))))

\* the loop over the three edges of Triangle.closestPoint, from edge i on
ClosestOnEdges(triangle, reference, i, closestDist, closestPt) ==
  IF i > 3 THEN <<closestPt, FALSE, closestDist>>
  ELSE ClosestOnEdges_point(triangle, reference, i, closestDist, closestPt,
                            closestPointTo(triangle.edges[i], reference))

\* closestPoint from the early exit on, surfacePoint and surfaceDist being known
closestPoint_surfacePoint(triangle, reference, occludeDist, surfaceDist, surfacePoint) ==
  Do(<<surfacePoint>>,
     IF occludeDist # <<>> /\ RGt(surfaceDist, occludeDist[1])
     THEN <<zero, FALSE, surfaceDist>>
     ELSE IF /\ RLe(dot(cross(subtract(surfacePoint, triangle.v0),
                               subtract(triangle.v1, triangle.v0)), triangle.normal), Q(0))
             /\ RLe(dot(cross(subtract(surfacePoint, triangle.v1),
                               subtract(triangle.v2, triangle.v1)), triangle.normal), Q(0))
             /\ RLe(dot(cross(subtract(surfacePoint, triangle.v2),
                               subtract(triangle.v0, triangle.v2)), triangle.normal), Q(0))
     THEN <<surfacePoint, TRUE, surfaceDist>>
     ELSE ClosestOnEdges(triangle, reference, 1, Infinity, zero))

\* closestPoint from the projection on, surfaceDist being known
closestPoint_surfaceDist(triangle, reference, onPlane, occludeDist, surfaceDist) ==
  Do(<<surfaceDist>>,
     closestPoint_surfacePoint(triangle, reference, occludeDist, surfaceDist,
       IF onPlane THEN reference
       ELSE subtract(reference, multiply(triangle.normal, surfaceDist))))

\* Triangle.closestPoint; occludeDist is <<>> (not given) or <<d>>.
\* The result is <<closest point, within the triangle, distance>>.
closestPoint(triangle, reference, onPlane, occludeDist) ==
  closestPoint_surfaceDist(triangle, reference, onPlane, occludeDist,
    IF onPlane THEN Q(0) ELSE dot(subtract(reference, triangle.v0), triangle.normal))

(***************************************************************************)
(* Ray                                                                      *)
(***************************************************************************)
Ray(origin, direction) == [origin |-> origin, direction |-> direction]

\* Ray.getPoint
getPoint(ray, t) == add(ray.origin, multiply(ray.direction, t))

axes == <<"x", "y", "z">>

RECURSIVE SlabLoop(_, _, _, _, _)
\* one turn of the axis loop from its last test on, the new tEntry and tExit
\* being known
SlabLoop_entry(ray, bounds, i, tEntry, tExit) ==
  Do(<<tEntry, tExit>>,
     IF RGt(tEntry, tExit) THEN FALSE ELSE SlabLoop(ray, bounds, i + 1, tEntry, tExit))

\* one turn of the axis loop from the swap on, tMin and tMax being known
SlabLoop_tMin(ray, bounds, i, tEntry, tExit, tMin, tMax) ==
  Do(<<tMin, tMax>>,
     IF RGt(tMin, tMax)
     THEN SlabLoop_entry(ray, bounds, i, RMax(tEntry, tMax), RMin(tExit, tMin))
     ELSE SlabLoop_entry(ray, bounds, i, RMax(tEntry, tMin), RMin(tExit, tMax)))

\* one turn of the axis loop for the axis, from the test of axisDir on
SlabLoop_axis(ray, bounds, i, tEntry, tExit, axisOrigin, axisDir, axisMin, axisMax) ==
  IF REq(axisDir, Q(0))
  THEN (IF RLt(axisOrigin, axisMin) \/ RGt(axisOrigin, axisMax)
        THEN FALSE
        ELSE SlabLoop(ray, bounds, i + 1, tEntry, tExit))
  ELSE SlabLoop_tMin(ray, bounds, i, tEntry, tExit,
                     RDiv(RSub(axisMin, axisOrigin), axisDir),
                     RDiv(RSub(axisMax, axisOrigin), axisDir))

\* the loop over the axes of Ray.intersectsBounds, from axis i on
SlabLoop(ray, bounds, i, tEntry, tExit) ==
  IF i > 3 THEN TRUE
  ELSE SlabLoop_axis(ray, bounds, i, tEntry, tExit,
                     ray.origin[axes[i]], ray.direction[axes[i]],
                     bounds.min[axes[i]], bounds.max[axes[i]])

\* Ray.intersectsBounds
intersectsBounds(ray, bounds) == SlabLoop(ray, bounds, 1, NegInfinity, Infinity)

\* getTriangleIntersection from the test of t on
getTriangleIntersection_t(t) == Do(<<t>>, IF RLt(t, Q(0)) THEN <<>> ELSE <<t>>)

\* getTriangleIntersection from the test of v on, without the u + v > 1 rejection
getTriangleIntersection_v_NoSumCheck(triangle, determinant, vertexDifference, u, v) ==
  Do(<<v>>,
     IF RLt(v, Q(0)) THEN <<>>
     ELSE getTriangleIntersection_t(
            RDiv(dot(vertexDifference, triangle.edgeCross), determinant)))

\* getTriangleIntersection from the test of v on
getTriangleIntersection_v(triangle, determinant, vertexDifference, u, v) ==
  Do(<<v>>,
     IF RLt(v, Q(0)) \/ RGt(RAdd(u, v), Q(1)) THEN <<>>
     ELSE getTriangleIntersection_t(
            RDiv(dot(vertexDifference, triangle.edgeCross), determinant)))

\* getTriangleIntersection from the test of u on
getTriangleIntersection_u(triangle, negDirection, determinant, vertexDifference, u) ==
  Do(<<u>>,
     IF RLt(u, Q(0)) THEN <<>>
     ELSE getTriangleIntersection_v(triangle, determinant, vertexDifference, u,
            RDiv(dot(negDirection, cross(triangle.edge1, vertexDifference)), determinant)))

\* getTriangleIntersection from the declaration of vertexDifference on
getTriangleIntersection_vertexDifference(triangle, negDirection, determinant, vertexDifference) ==
  Do(<<vertexDifference>>,
     getTriangleIntersection_u(triangle, negDirection, determinant, vertexDifference,
       RDiv(dot(negDirection, cross(vertexDifference, triangle.edge2)), determinant)))

\* getTriangleIntersection from the test of the determinant on
getTriangleIntersection_determinant(ray, triangle, negDirection, determinant) ==
  Do(<<determinant>>,
     IF RLe(determinant, Q(0)) THEN <<>>
     ELSE getTriangleIntersection_vertexDifference(triangle, negDirection, determinant,
            subtract(ray.origin, triangle.v0)))

\* getTriangleIntersection for negDirection = this.direction.multiply(-1)
getTriangleIntersection_negDirection(ray, triangle, negDirection) ==
  Do(<<negDirection>>,
     getTriangleIntersection_determinant(ray, triangle, negDirection,
                                         dot(negDirection, triangle.edgeCross)))

\* Ray.getTriangleIntersection (Moller-Trumbore); <<>> is undefined, <<t>> a hit
Ray_getTriangleIntersection(ray, triangle) ==
  getTriangleIntersection_negDirection(ray, triangle, multiply(ray.direction, Q(-1)))

(***************************************************************************)
(* Capsule                                                                  *)
(***************************************************************************)
\* the capsule with the fields updateTransform assigns, tStart and tEnd being known
updateTransform_tStart(start, end, radius, transformation, tStart, tEnd) ==
  Do(<<tStart, tEnd>>,
     [start |-> start, end |-> end, radius |-> radius,
      transformation |-> transformation,
      tStart |-> tStart, tEnd |-> tEnd,
      line |-> Line(tStart, tEnd),
      bounds |-> fromPoints(<<tStart, tEnd>>, radius)])

\* Capsule.updateTransform, as a new capsule value
updateTransform(start, end, radius, transformation) ==
  updateTransform_tStart(start, end, radius, transformation,
                         apply(transformation, start), apply(transformation, end))

\* new Capsule(start, end, radius) with the default transformation
Capsule(start, end, radius) == updateTransform(start, end, radius, identity)

\* setTransformation adding the new transformation to the one in place
setTransformation_Composed(capsule, transformation) ==
  updateTransform(capsule.start, capsule.end, capsule.radius,
                  matrixMultiply(capsule.transformation, transformation))

\* Capsule.setTransformation
setTransformation(capsule, transformation) ==
  updateTransform(capsule.start, capsule.end, capsule.radius, transformation)

\* getTriangleIntersection from the early exit on, the closest point of the
\* triangle being known
Capsule_getTriangleIntersection_closest(capsule, triangle, center, closestPt, insideTriangle, pointDistance) ==
  IF RGt(pointDistance, capsule.radius) THEN <<FALSE>>
  ELSE <<TRUE,
         IF ~insideTriangle THEN unit(subtract(center, closestPt)) ELSE triangle.normal,
         RSub(capsule.radius, pointDistance)>>

\* getTriangleIntersection from the second closestPoint call on; closest is
\* the tuple that call returned
Capsule_getTriangleIntersection_tuple(capsule, triangle, center, closest) ==
  Do(<<closest>>,
     Capsule_getTriangleIntersection_closest(capsule, triangle, center,
                                             closest[1], closest[2], closest[3]))

\* getTriangleIntersection from the declaration of center on
Capsule_getTriangleIntersection_center(capsule, triangle, center) ==
  Do(<<center>>,
     Capsule_getTriangleIntersection_tuple(capsule, triangle, center,
       closestPoint(triangle, center, FALSE, <<capsule.radius>>)))

\* getTriangleIntersection from the choice of the reference point on
Capsule_getTriangleIntersection_planeIntersection(capsule, triangle, planeIntersection) ==
  Do(<<planeIntersection>>,
     Capsule_getTriangleIntersection_center(capsule, triangle,
       closestPointTo(capsule.line,
                      IF planeIntersection # <<>>
                      THEN closestPoint(triangle, planeIntersection[1], TRUE, <<>>)[1]
                      ELSE triangle.centroid)))

\* Capsule.getTriangleIntersection; <<FALSE>> or <<TRUE, normal, overlap>>
Capsule_getTriangleIntersection(capsule, triangle) ==
  Capsule_getTriangleIntersection_planeIntersection(capsule, triangle,
    getPlaneIntersection(capsule.line, triangle.v0, triangle.normal, FALSE))

(***************************************************************************)
(* BVH (collisions/bvh.ts).  A BVHNode is a record; an optional field is    *)
(* <<>> when undefined and <<v>> when it holds v.                           *)
(***************************************************************************)
BVHNode(bounds, left, right, triangles) ==
  [bounds |-> bounds, left |-> left, right |-> right, triangles |-> triangles]

RECURSIVE Vertices(_)
\* the vertices array of constructNode
Vertices(triangles) ==
  IF triangles = <<>> THEN <<>>
  ELSE <<Head(triangles).v0, Head(triangles).v1, Head(triangles).v2>> \o Vertices(Tail(triangles))

\* the centers array of constructNode
Centers(triangles) == [i \in 1..Len(triangles) |-> triangles[i].centroid]

\* the split axis chosen by constructNode
SplitAxis(centerBounds) ==
  IF RGt(centerBounds.dimensions.y, centerBounds.dimensions.x)
  THEN (IF RGt(centerBounds.dimensions.z, centerBounds.dimensions.y) THEN "z" ELSE "y")
  ELSE (IF RGt(centerBounds.dimensions.z, centerBounds.dimensions.x) THEN "z" ELSE "x")

RECURSIVE Half_Strict(_, _, _, _, _)
\* the split loop with strict comparisons on both sides: a triangle whose
\* centroid is at the centre goes to neither list
Half_Strict(triangles, splitAxis, centerBounds, left, i) ==
  IF i > Len(triangles) THEN <<>>
  ELSE (IF (left /\ RLt(triangles[i].centroid[splitAxis], centerBounds.center[splitAxis]))
           \/ (~left /\ RGt(triangles[i].centroid[splitAxis], centerBounds.center[splitAxis]))
        THEN <<triangles[i]>>
        ELSE <<>>)
       \o Half_Strict(triangles, splitAxis, centerBounds, left, i + 1)

RECURSIVE Half(_, _, _, _, _)
\* leftTriangles (left = TRUE) or rightTriangles (left = FALSE) of the split
\* loop of constructNode, from triangle i on
Half(triangles, splitAxis, centerBounds, left, i) ==
  IF i > Len(triangles) THEN <<>>
  ELSE (IF RLt(triangles[i].centroid[splitAxis], centerBounds.center[splitAxis]) = left
        THEN <<triangles[i]>>
        ELSE <<>>)
       \o Half(triangles, splitAxis, centerBounds, left, i + 1)

RECURSIVE constructNode(_)
\* constructNode from the construction of the children on
constructNode_leftTriangles(bounds, leftTriangles, rightTriangles) ==
  Do(<<leftTriangles, rightTriangles>>,
     BVHNode(bounds,
             IF Len(leftTriangles) > 0 THEN <<constructNode(leftTriangles)>> ELSE <<>>,
             IF Len(rightTriangles) > 0 THEN <<constructNode(rightTriangles)>> ELSE <<>>,
             <<>>))

\* constructNode from the split loop on, splitAxis being known
constructNode_splitAxis(triangles, bounds, centerBounds, splitAxis) ==
  constructNode_leftTriangles(bounds,
                              Half(triangles, splitAxis, centerBounds, TRUE, 1),
                              Half(triangles, splitAxis, centerBounds, FALSE, 1))

\* constructNode from the leaf test on, the two bounds being known
constructNode_bounds(triangles, bounds, centerBounds) ==
  Do(<<bounds, centerBounds>>,
     IF Len(triangles) = 1 \/ REq(magnitude(centerBounds.dimensions), Q(0))
     THEN BVHNode(bounds, <<>>, <<>>, <<triangles>>)
     ELSE constructNode_splitAxis(triangles, bounds, centerBounds, SplitAxis(centerBounds)))

\* constructNode with the box of the centroids as the bounds of the node
constructNode_CentroidBox(triangles) ==
  constructNode_bounds(triangles, fromPoints(Centers(triangles), Q(0)),
                       fromPoints(Centers(triangles), Q(0)))

\* BVH.constructNode, returning the constructed node
constructNode(triangles) ==
  constructNode_bounds(triangles, fromPoints(Vertices(triangles), Q(0)),
                       fromPoints(Centers(triangles), Q(0)))

RECURSIVE Flatten(_)
\* the triangles of all models, in order
Flatten(models) ==
  IF models = <<>> THEN <<>> ELSE Head(models) \o Flatten(Tail(models))

\* the filter callbacks handed to traverse
RayFilter(ray) == [kind |-> "ray", ray |-> ray]

CapsuleFilter(hitbox) == [kind |-> "capsule", hitbox |-> hitbox]

nodeFilter(filter, nodeBounds) ==
  IF filter.kind = "ray" THEN intersectsBounds(filter.ray, nodeBounds)
  ELSE overlaps(filter.hitbox.bounds, nodeBounds)

RECURSIVE traverse_LeftOnly(_, _)
\* traverse without the descent into the right child
traverse_LeftOnly(filter, node) ==
  IF nodeFilter(filter, node.bounds)
  THEN (IF node.left # <<>> THEN traverse_LeftOnly(filter, node.left[1]) ELSE <<>>)
       \o (IF node.triangles # <<>> THEN node.triangles[1] ELSE <<>>)
  ELSE <<>>

RECURSIVE traverse(_, _)
\* BVH.traverse, returning the triangles it pushes
traverse(filter, node) ==
  IF nodeFilter(filter, node.bounds)
  THEN (IF node.left # <<>> THEN traverse(filter, node.left[1]) ELSE <<>>)
       \o (IF node.right # <<>> THEN traverse(filter, node.right[1]) ELSE <<>>)
       \o (IF node.triangles # <<>> THEN node.triangles[1] ELSE <<>>)
  ELSE <<>>

\* BVH.getCandidateTriangles
getCandidateTriangles(node, nodeFilterArg) == traverse(nodeFilterArg, node)

\* the truthiness of a number | undefined
Truthy(t) == t # <<>> /\ ~IsNaN(t[1]) /\ t[1] # Q(0)

RECURSIVE RaycastLoop(_, _, _, _, _, _)
\* one turn of the loop from its test on, t being known
RaycastLoop_t(ray, possibleTriangles, i, intersection, minT, minNormal, t) ==
  Do(<<t>>,
     IF Truthy(t) /\ RLt(t[1], minT)
     THEN RaycastLoop(ray, possibleTriangles, i + 1, TRUE, t[1], possibleTriangles[i].normal)
     ELSE RaycastLoop(ray, possibleTriangles, i + 1, intersection, minT, minNormal))

\* the loop of BVH.raycast over the candidates, from candidate i on
RaycastLoop(ray, possibleTriangles, i, intersection, minT, minNormal) ==
  IF i > Len(possibleTriangles)
  THEN (IF intersection
        THEN <<[t |-> minT, normal |-> minNormal, position |-> getPoint(ray, minT)]>>
        ELSE <<>>)
  ELSE RaycastLoop_t(ray, possibleTriangles, i, intersection, minT, minNormal,
                     Ray_getTriangleIntersection(ray, possibleTriangles[i]))

\* BVH.raycast; <<>> is undefined, <<info>> a RaycastInfo
raycast(node, ray) ==
  RaycastLoop(ray, getCandidateTriangles(node, RayFilter(ray)), 1, FALSE, Infinity, zero)

\* what one turn of the loop pushes, for the tuple the capsule test returned
CollisionLoop_info(r) ==
  Do(<<r>>, IF r[1] THEN <<[normal |-> r[2], overlap |-> r[3]]>> ELSE <<>>)

RECURSIVE CollisionLoop(_, _, _)
\* the loop of BVH.collisionQuery over the candidates, from candidate i on
CollisionLoop(hitbox, possibleTriangles, i) ==
  IF i > Len(possibleTriangles) THEN <<>>
  ELSE CollisionLoop_info(Capsule_getTriangleIntersection(hitbox, possibleTriangles[i]))
       \o CollisionLoop(hitbox, possibleTriangles, i + 1)

\* BVH.collisionQuery
collisionQuery(node, hitbox) ==
  CollisionLoop(hitbox, getCandidateTriangles(node, CapsuleFilter(hitbox)), 1)

(***************************************************************************)
(* Entity (entity/entity.ts)                                                *)
(***************************************************************************)
GRAV_ACCEL == 100

\* cos(MAX_VERTICAL_SLOPE) = cos(80 degrees), to five places
CosMaxVerticalSlope == <<17365, 100000>>

\* angle <= MAX_VERTICAL_SLOPE || angle >= Math.PI - MAX_VERTICAL_SLOPE for
\* angle = Math.acos(normal.dot(Vector3.y)); acos is NaN outside [-1, 1]
isVertical_dot(d) ==
  /\ RLe(Q(-1), d) /\ RLe(d, Q(1))
  /\ (RGe(d, CosMaxVerticalSlope) \/ RLe(d, RNeg(CosMaxVerticalSlope)))

\* the isVertical flag handleCollisions computes for a contact normal
isVertical(normal) == isVertical_dot(dot(normal, yAxis))

\* new Entity(position, hitbox)
Entity(position, hitbox) ==
  [position |-> position, hitbox |-> hitbox,
   moveDirection |-> zero, moveSpeed |-> Q(0),
   aimDirection |-> lookVector(identity),
   faceMatrix |-> identity,
   fallSpeed |-> Q(0), onFloor |-> FALSE]

RECURSIVE Corrections_FloorPassTakesAll(_, _, _)
RECURSIVE Corrections(_, _, _)
\* the corrections array with the wall pass alone skipping the other class
Corrections_FloorPassTakesAll(collisions, vertical, i) ==
  IF i > Len(collisions) THEN <<>>
  ELSE (IF isVertical(collisions[i].normal) /\ ~vertical THEN <<>>
        ELSE <<multiply(collisions[i].normal, collisions[i].overlap)>>)
       \o Corrections_FloorPassTakesAll(collisions, vertical, i + 1)

\* the corrections array of handleCollisions, from collision i on
Corrections(collisions, vertical, i) ==
  IF i > Len(collisions) THEN <<>>
  ELSE (IF isVertical(collisions[i].normal) # vertical THEN <<>>
        ELSE <<multiply(collisions[i].normal, collisions[i].overlap)>>)
       \o Corrections(collisions, vertical, i + 1)

RECURSIVE Largest(_, _, _)
\* the vector of greatest magnitude, the first one on ties, from vector i on
Largest(vectors, i, acc) ==
  IF i > Len(vectors) THEN acc
  ELSE Largest(vectors, i + 1,
               IF RGt(magnitude(vectors[i]), magnitude(acc)) THEN vectors[i] ELSE acc)

\* handleCollisions reporting a collision for a contact of either class
handleCollisions_totalCorrection_AnyClass(e, hitbox, vertical, collisions, corrections, totalCorrection) ==
  [entity |-> [e EXCEPT !.hitbox = hitbox, !.position = add(e.position, totalCorrection)],
   collided |-> Len(collisions) > 0,
   correction |-> totalCorrection,
   vertical |-> vertical,
   collisions |-> collisions]

\* handleCollisions from the position update on: the entity after the call,
\* the returned tuple [collided, correction], and what the call worked on
handleCollisions_totalCorrection(e, hitbox, vertical, collisions, corrections, totalCorrection) ==
  Do(<<totalCorrection>>,
     [entity |-> [e EXCEPT !.hitbox = hitbox, !.position = add(e.position, totalCorrection)],
      collided |-> Len(corrections) > 0,
      correction |-> totalCorrection,
      vertical |-> vertical,
      collisions |-> collisions])

\* handleCollisions summing the first two terms alone
handleCollisions_orthogonalCorrection1_NoThird(e, hitbox, vertical, collisions, corrections, maxCorrection, orthogonalCorrection1) ==
  handleCollisions_totalCorrection(e, hitbox, vertical, collisions, corrections,
                                   add(maxCorrection, orthogonalCorrection1))

\* handleCollisions from the declaration of planeNormal on
handleCollisions_orthogonalCorrection1(e, hitbox, vertical, collisions, corrections, maxCorrection, orthogonalCorrection1) ==
  Do(<<orthogonalCorrection1>>,
     handleCollisions_totalCorrection(e, hitbox, vertical, collisions, corrections,
       add(add(maxCorrection, orthogonalCorrection1),
           Largest([i \in 1..Len(corrections) |->
                      getParallelComponent(corrections[i],
                                           cross(maxCorrection, orthogonalCorrection1))],
                   1, zero))))

\* handleCollisions from the second loop on
handleCollisions_maxCorrection(e, hitbox, vertical, collisions, corrections, maxCorrection) ==
  Do(<<maxCorrection>>,
     handleCollisions_orthogonalCorrection1(e, hitbox, vertical, collisions, corrections,
       maxCorrection,
       Largest([i \in 1..Len(corrections) |->
                  getOrthogonalComponent(corrections[i], maxCorrection)],
               1, zero)))

\* handleCollisions from the first loop over the corrections on
handleCollisions_corrections(e, hitbox, vertical, collisions, corrections) ==
  Do(<<corrections>>,
     handleCollisions_maxCorrection(e, hitbox, vertical, collisions, corrections,
                                    Largest(corrections, 1, zero)))

\* handleCollisions from the loop over the collisions on
handleCollisions_collisions(e, hitbox, vertical, collisions) ==
  Do(<<collisions>>,
     handleCollisions_corrections(e, hitbox, vertical, collisions,
                                  Corrections(collisions, vertical, 1)))

\* handleCollisions from the query on, the hitbox being transformed
handleCollisions_hitbox(e, hitbox, node, vertical) ==
  Do(<<hitbox>>,
     handleCollisions_collisions(e, hitbox, vertical, collisionQuery(node, hitbox)))

\* Entity.handleCollisions
handleCollisions(e, node, vertical) ==
  handleCollisions_hitbox(e,
    setTransformation(e.hitbox, matrixMultiply(fromPosition(e.position), e.faceMatrix)),
    node, vertical)

\* the fall, with the fall speed accelerated before it displaces the entity
updatePhysics_fallDisplacement_SpeedFirst(e, deltaTime) ==
  [e EXCEPT !.position =
              add(add(e.position,
                      multiply(yAxis, RMul(RNeg(RAdd(e.fallSpeed, RMul(Q(GRAV_ACCEL), deltaTime))),
                                           deltaTime))),
                  multiply(yAxis, RDiv(RMul(Q(-GRAV_ACCEL), RMul(deltaTime, deltaTime)), Q(2)))),
            !.fallSpeed = RAdd(e.fallSpeed, RMul(Q(GRAV_ACCEL), deltaTime))]

\* the fall of updatePhysics: the two displacements, then the acceleration
updatePhysics_fallDisplacement(e, deltaTime) ==
  [e EXCEPT !.position =
              add(add(e.position, multiply(yAxis, RMul(RNeg(e.fallSpeed), deltaTime))),
                  multiply(yAxis, RDiv(RMul(Q(-GRAV_ACCEL), RMul(deltaTime, deltaTime)), Q(2)))),
            !.fallSpeed = RAdd(e.fallSpeed, RMul(Q(GRAV_ACCEL), deltaTime))]

\* onFloor set by any vertical-class contact, the ceiling included
updatePhysics_verticalCollision_AnyContact(v) ==
  [v.entity EXCEPT !.fallSpeed = IF v.collided THEN Q(0) ELSE @,
                   !.onFloor = v.collided]

\* what updatePhysics does with the tuple of handleCollisions(true)
updatePhysics_verticalCollision(v) ==
  [v.entity EXCEPT !.fallSpeed = IF v.collided THEN Q(0) ELSE @,
                   !.onFloor = v.collided /\ RGt(dot(v.correction, yAxis), Q(0))]

\* the move displacement of updatePhysics
updatePhysics_moveDisplacement(e, deltaTime) ==
  [e EXCEPT !.position = add(e.position, multiply(e.moveDirection, RMul(e.moveSpeed, deltaTime)))]

\* the statements of updatePhysics in the order they ran, h being what
\* handleCollisions(false) did
updatePhysics_h(e1, v, e2, e3, h) ==
  Do(<<h>>,
     <<[step |-> "fall", entity |-> e1],
       [step |-> "handleCollisions", entity |-> v.entity, vertical |-> v.vertical,
        collisions |-> v.collisions, collided |-> v.collided, correction |-> v.correction],
       [step |-> "floor", entity |-> e2],
       [step |-> "move", entity |-> e3],
       [step |-> "handleCollisions", entity |-> h.entity, vertical |-> h.vertical,
        collisions |-> h.collisions, collided |-> h.collided, correction |-> h.correction]>>)

\* the wall pass clearing the fall speed and setting onFloor as the floor pass does
updatePhysics_e3_WallStopsFall(e1, v, e2, e3, node) ==
  updatePhysics_h(e1, v, e2, e3,
                  [handleCollisions(e3, node, FALSE) EXCEPT
                     !.entity = updatePhysics_verticalCollision(handleCollisions(e3, node, FALSE))])

\* updatePhysics from handleCollisions(false) on
updatePhysics_e3(e1, v, e2, e3, node) ==
  Do(<<e3>>, updatePhysics_h(e1, v, e2, e3, handleCollisions(e3, node, FALSE)))

\* updatePhysics from the move displacement on
updatePhysics_e2(e1, v, e2, node, deltaTime) ==
  Do(<<e2>>, updatePhysics_e3(e1, v, e2, updatePhysics_moveDisplacement(e2, deltaTime), node))

\* updatePhysics from the use of the tuple of handleCollisions(true) on
updatePhysics_v(e1, v, node, deltaTime) ==
  Do(<<v>>, updatePhysics_e2(e1, v, updatePhysics_verticalCollision(v), node, deltaTime))

\* updatePhysics from handleCollisions(true) on
updatePhysics_e1(e1, node, deltaTime) ==
  Do(<<e1>>, updatePhysics_v(e1, handleCollisions(e1, node, TRUE), node, deltaTime))

\* Entity.updatePhysics, as the list of its statements with the entity after each
updatePhysics(e, node, deltaTime) ==
  updatePhysics_e1(updatePhysics_fallDisplacement(e, deltaTime), node, deltaTime)

\* Entity.impulseUp
impulseUp(e, magnitudeArg) == [e EXCEPT !.fallSpeed = RSub(e.fallSpeed, magnitudeArg)]

\* set moveDirection
setMoveDirection(e, direction) ==
  [e EXCEPT !.moveDirection = unit(Vector3(direction.x, Q(0), direction.z))]

\* set moveSpeed
setMoveSpeed(e, speed) == [e EXCEPT !.moveSpeed = RMax(Q(0), speed)]

\* set aimDirection, once the aim direction is assigned
setAimDirection_aimDirection(e, aimDirection) ==
  [e EXCEPT !.aimDirection = aimDirection,
            !.faceMatrix = fromLookVector(unit(Vector3(aimDirection.x, Q(0), aimDirection.z)))]

\* set aimDirection
setAimDirection(e, direction) ==
  setAimDirection_aimDirection(e, IF magnitude(direction) # Q(0) THEN unit(direction)
                                  ELSE e.aimDirection)

(***************************************************************************)
(* Inputs                                                                   *)
(***************************************************************************)
\* The pool triangles are 3-4-5 right triangles, so that the unit vectors of
\* their edges and normals are exact.

\* a floor patch around the origin, facing up
FloorA == Triangle(Vec(-1, 0, -1), Vec(-1, 0, 3), Vec(2, 0, -1))

\* the same patch, far away along z
FloorB == Triangle(Vec(-1, 0, -9), Vec(-1, 0, -5), Vec(2, 0, -9))

\* the same patch one unit below FloorA
FloorLow == Triangle(Vec(-1, -1, -1), Vec(-1, -1, 3), Vec(2, -1, -1))

\* FloorA with the opposite winding, facing down
CeilA == Triangle(Vec(-1, 0, -1), Vec(2, 0, -1), Vec(-1, 0, 3))

\* a wall in the plane x = 0, facing -x, whose centroid is the centroid of FloorA
WallA == Triangle(Vec(0, -1, -1), Vec(0, -1, 3), Vec(0, 2, -1))

\* the same wall in the plane x = 1
WallX == Triangle(Vec(1, -1, -1), Vec(1, -1, 3), Vec(1, 2, -1))

TrianglePool == {FloorA, FloorB, FloorLow, CeilA, WallA, WallX}

\* the same patch halfway between FloorA and FloorB
FloorMid == Triangle(Vec(-1, 0, -5), Vec(-1, 0, -1), Vec(2, 0, -5))

\* worlds of three triangles: one whose middle centroid is the centre of the
\* centroid box, and one with two triangles sharing their centroid
DeepWorlds == {<<FloorA, FloorMid, FloorB>>, <<FloorB, FloorA, WallA>>}

\* the floor triangle of the ray scenario, in the order the vertices are given
ScenarioTriangle == Triangle(Vec(-10, 0, -10), Vec(10, 0, -10), Vec(0, 0, 10))

\* the same triangle wound the other way, facing up
BigFloor == Triangle(Vec(-10, 0, -10), Vec(0, 0, 10), Vec(10, 0, -10))

\* a wall in the plane x = 3, facing -x, with sides 3-4-5
BigWall == Triangle(Vec(3, -10, -10), Vec(3, -10, 30), Vec(3, 20, -10))

\* a ceiling in the plane y = 9, facing down
BigCeil == Triangle(Vec(-10, 9, -10), Vec(10, 9, -10), Vec(0, 9, 10))

SeqsUpTo(S, n) == UNION {[1..k -> S] : k \in 0..n}

\* the triangle lists handed to the BVH: lists of distinct pool triangles, and
\* the two worlds of the ray scenario
Worlds ==
  {w \in SeqsUpTo(TrianglePool, MaxTris) : \A i, j \in 1..Len(w) : i # j => w[i] # w[j]}
    \cup {<<ScenarioTriangle>>, <<BigFloor>>} \cup DeepWorlds

\* the model lists of BVH.init: no model, one model, or two models
ModelLists ==
  {<<>>} \cup {<<w>> : w \in {x \in Worlds : Len(x) < 2}}
         \cup {<<<<Head(w)>>, Tail(w)>> : w \in {x \in Worlds : Len(x) >= 2}}

\* origins on the y axis, with those of the ray scenario
RayOrigins == {Vec(0, y, 0) : y \in (-MaxCoord)..MaxCoord} \cup {Vec(0, 5, 0), Vec(0, -5, 0)}

RayDirections == {Vec(0, -1, 0), Vec(0, 1, 0), Vec(1, 0, 0), Vec(1, -2, 0)}

Rays == {Ray(o, d) : o \in RayOrigins, d \in RayDirections}

\* a sphere of radius 1/2 and an upright capsule of radius 3/2
CapsuleShapes ==
  { [start |-> zero, end |-> zero, radius |-> <<1, 2>>],
    [start |-> Vec(0, -1, 0), end |-> Vec(0, 1, 0), radius |-> <<3, 2>>] }

CapsulePositions == {Vec(1, y, z) : y \in (-MaxCoord)..MaxCoord, z \in {0, -8}}

Capsules ==
  {setTransformation(Capsule(s.start, s.end, s.radius), fromPosition(p)) :
     s \in CapsuleShapes, p \in CapsulePositions}

(***************************************************************************)
(* State                                                                    *)
(***************************************************************************)
VARIABLES
  models,     \* the GameModels handed to BVH.init, each a list of triangles
  root,       \* BVH.root: <<>> before init, <<node>> after
  call,       \* the last call made: its name and its argument
  returned,   \* what the last call returned
  entity,     \* the entities under simulation: <<>>, <<e>> or <<player, monster>>
  deltaTime,  \* the time step of the physics ticks
  game,       \* <<>>, or the fields of Game and Gameloop with the browser's pending work
  trace       \* what the last handler did, statement by statement

vars == <<models, root, call, returned, entity, deltaTime, game, trace>>

Init ==
  /\ models \in ModelLists
  /\ root = <<>>
  /\ call = [op |-> "none"]
  /\ returned = <<>>
  /\ entity = <<>>
  /\ deltaTime = <<1, 60>>
  /\ game = <<>>
  /\ trace = <<>>

\* BVH.init(models)
BVHInit ==
  /\ root = <<>>
  /\ root' = <<constructNode(Flatten(models))>>
  /\ call' = [op |-> "init"]
  /\ returned' = <<>>
  /\ UNCHANGED <<models, entity, deltaTime, game, trace>>

\* BVH.raycast(ray) on the built tree
Raycast ==
  /\ root # <<>>
  /\ \E ray \in Rays :
       /\ call' = [op |-> "raycast", ray |-> ray]
       /\ returned' = raycast(root[1], ray)
  /\ UNCHANGED <<models, root, entity, deltaTime, game, trace>>

\* a query that keeps its candidate triangles in the root for the next one
CollisionQuery_Caching ==
  /\ root # <<>>
  /\ \E hitbox \in Capsules :
       /\ call' = [op |-> "collisionQuery", hitbox |-> hitbox]
       /\ returned' = collisionQuery(root[1], hitbox)
       /\ root' = <<[root[1] EXCEPT
                       !.triangles = <<getCandidateTriangles(root[1], CapsuleFilter(hitbox))>>]>>
  /\ UNCHANGED <<models, entity, deltaTime, game, trace>>

\* BVH.collisionQuery(hitbox) on the built tree
CollisionQuery ==
  /\ root # <<>>
  /\ \E hitbox \in Capsules :
       /\ call' = [op |-> "collisionQuery", hitbox |-> hitbox]
       /\ returned' = collisionQuery(root[1], hitbox)
  /\ UNCHANGED <<models, root, entity, deltaTime, game, trace>>

Next == BVHInit \/ Raycast \/ CollisionQuery

Spec == Init /\ [][Next]_vars

(***************************************************************************)
(* One entity over a horizontal floor                                       *)
(***************************************************************************)
\* the hitbox of Player (entity/player.ts)
PlayerHitbox == Capsule(Vec(0, -2, 0), Vec(0, 2, 0), <<3, 2>>)

\* heights at which the hitbox is wholly above the floor y = 0
SpawnHeights == {4, 5, 10}

\* upward impulses: a jump, and pushes downwards
Impulses == {Q(30), Q(-10), Q(-200)}

\* time steps whose products with GRAV_ACCEL and the impulses are exact singles
DeltaTimes == {<<1, 16>>, <<1, 20>>, <<1, 10>>, <<1, 5>>}

\* the maps: a floor, a floor with a wall, a floor under a ceiling
PhysicsWorlds == {<<BigFloor>>, <<BigFloor, BigWall>>, <<BigFloor, BigCeil>>}

\* directions handed to the moveDirection setter, and speeds to the moveSpeed setter
MoveDirections == {Vec(1, 1, 0)}

MoveSpeeds == {Q(10)}

PhysicsInit ==
  /\ models \in {<<w>> : w \in PhysicsWorlds}
  /\ root = <<>>
  /\ call = [op |-> "none"]
  /\ returned = <<>>
  /\ entity = <<>>
  /\ deltaTime \in DeltaTimes
  /\ game = <<>>
  /\ trace = <<>>

\* new Entity(position, hitbox), as Game.start does once the tree is built
Spawn ==
  /\ root # <<>>
  /\ entity = <<>>
  /\ \E y \in SpawnHeights : entity' = <<Entity(Vec(0, y, 0), PlayerHitbox)>>
  /\ call' = [op |-> "spawn"]
  /\ returned' = <<>>
  /\ UNCHANGED <<models, root, deltaTime, game, trace>>

\* entity.impulseUp(magnitude) before the first tick: the initial fall speed
ImpulseUp ==
  /\ entity # <<>>
  /\ call.op = "spawn"
  /\ \E m \in Impulses : entity' = <<impulseUp(entity[1], m)>>
  /\ call' = [op |-> "impulseUp"]
  /\ returned' = <<>>
  /\ UNCHANGED <<models, root, deltaTime, game, trace>>

\* entity.moveDirection = direction; entity.moveSpeed = speed, before the first tick
SetMove ==
  /\ entity # <<>>
  /\ call.op \in {"spawn", "impulseUp"}
  /\ \E direction \in MoveDirections, speed \in MoveSpeeds :
       entity' = <<setMoveSpeed(setMoveDirection(entity[1], direction), speed)>>
  /\ call' = [op |-> "move"]
  /\ returned' = <<>>
  /\ UNCHANGED <<models, root, deltaTime, game, trace>>

\* entity.updatePhysics(deltaTime): one physics tick
UpdatePhysics ==
  /\ root # <<>>
  /\ entity # <<>>
  /\ RGe(entity[1].position.y, Q(-MaxFall))
  /\ RLe(entity[1].position.x, Q(MaxWalk))
  /\ trace' = updatePhysics(entity[1], root[1], deltaTime)
  /\ entity' = <<trace'[Len(trace')].entity>>
  /\ call' = [op |-> "updatePhysics"]
  /\ returned' = <<>>
  /\ UNCHANGED <<models, root, deltaTime, game>>

PhysicsNext == BVHInit \/ Spawn \/ ImpulseUp \/ SetMove \/ UpdatePhysics

PhysicsSpec == PhysicsInit /\ [][PhysicsNext]_vars

(***************************************************************************)
(* The primitives on their own: the arguments are drawn by the initial      *)
(* state and one step makes the call.                                       *)
(***************************************************************************)
PrimitiveTriangles == TrianglePool \cup {ScenarioTriangle, BigFloor}

PrimitiveRays ==
  {Ray(Vec(x, y, z), d) : x \in {0, 2}, y \in (-MaxCoord)..MaxCoord, z \in {0, 2},
                          d \in RayDirections \cup {Vec(-1, -1, 1)}}

\* boxes whose sides are [0,1], [1,2] or [2,3] on x and [0,1] or [2,3] on y and z,
\* and the box that holds them all
Boxes ==
  {Bounds(Vec(x, y, z), Vec(x + 1, y + 1, z + 1)) : x \in {0, 1, 2}, y \in {0, 2}, z \in {0, 2}}
    \cup {Bounds(Vec(0, 0, 0), Vec(3, 3, 3))}

\* the hitbox of Monster (entity/monster.ts)
MonsterHitbox == Capsule(Vec(0, -2, 0), Vector3(Q(0), <<69, 10>>, Q(0)), <<3, 2>>)

\* capsules as constructed, and after a move
PrimitiveCapsules ==
  {setTransformation(c, m) :
     c \in {Capsule(s.start, s.end, s.radius) : s \in CapsuleShapes}
            \cup {PlayerHitbox, MonsterHitbox},
     m \in {identity, fromPosition(Vec(1, 2, 0))}}

\* unit contact normals: up, down, sideways, and to either side of the slope
\* threshold (11/61 and 13/85 are the cosines of 79.6 and 81.2 degrees)
ContactNormals ==
  {Vec(0, 1, 0), Vec(0, -1, 0), Vec(-1, 0, 0),
   Vector3(<<-4, 5>>, <<3, 5>>, Q(0)),
   Vector3(<<-60, 61>>, <<11, 61>>, Q(0)), Vector3(<<60, 61>>, <<-11, 61>>, Q(0)),
   Vector3(<<-84, 85>>, <<13, 85>>, Q(0)), Vector3(<<84, 85>>, <<-13, 85>>, Q(0))}

\* what collisionQuery can hand to handleCollisions: up to two contacts
ContactLists == SeqsUpTo({[normal |-> n, overlap |-> <<1, 2>>] : n \in ContactNormals}, 2)

\* contacts of both classes with overlaps of their own: walls facing -x, a
\* wall facing +x, a wall facing +z, a wall leaning by 8.8 degrees, the
\* floor and a slope
ResolveContacts ==
  {[normal |-> Vec(-1, 0, 0), overlap |-> Q(1)],
   [normal |-> Vec(-1, 0, 0), overlap |-> <<1, 2>>],
   [normal |-> Vec(1, 0, 0), overlap |-> <<1, 4>>],
   [normal |-> Vec(0, 0, 1), overlap |-> <<1, 2>>],
   [normal |-> Vector3(<<-84, 85>>, <<13, 85>>, Q(0)), overlap |-> <<1, 2>>],
   [normal |-> Vec(0, 1, 0), overlap |-> <<1, 2>>],
   [normal |-> Vector3(<<-4, 5>>, <<3, 5>>, Q(0)), overlap |-> <<1, 4>>]}

\* what collisionQuery can hand to the resolution: up to MaxContacts contacts
ResolveLists == SeqsUpTo(ResolveContacts, MaxContacts)

PendingCalls ==
  {[op |-> "getTriangleIntersection", ray |-> r, triangle |-> t, pending |-> TRUE] :
     r \in PrimitiveRays, t \in PrimitiveTriangles}
  \cup {[op |-> "overlaps", this |-> a, bounds |-> b, pending |-> TRUE] : a \in Boxes, b \in Boxes}
  \cup {[op |-> "setTransformation", capsule |-> c, transformation |-> m, pending |-> TRUE] :
          c \in PrimitiveCapsules, m \in {identity, fromPosition(Vec(0, 1, 0))}}
  \cup {[op |-> "corrections", collisions |-> c, vertical |-> v, pending |-> TRUE] :
          c \in ContactLists, v \in BOOLEAN}
  \cup {[op |-> "handleCollisions", collisions |-> c, vertical |-> v, pending |-> TRUE] :
          c \in ResolveLists, v \in BOOLEAN}

PrimitiveInit ==
  /\ models = <<>>
  /\ root = <<>>
  /\ call \in PendingCalls
  /\ returned = <<>>
  /\ entity = <<>>
  /\ deltaTime = <<1, 60>>
  /\ game = <<>>
  /\ trace = <<>>

\* ray.getTriangleIntersection(triangle)
RayTriangleTest ==
  /\ call.op = "getTriangleIntersection"
  /\ call.pending
  /\ returned' = Ray_getTriangleIntersection(call.ray, call.triangle)
  /\ call' = [call EXCEPT !.pending = FALSE]
  /\ UNCHANGED <<models, root, entity, deltaTime, game, trace>>

\* this.overlaps(bounds)
OverlapsTest ==
  /\ call.op = "overlaps"
  /\ call.pending
  /\ returned' = overlaps(call.this, call.bounds)
  /\ call' = [call EXCEPT !.pending = FALSE]
  /\ UNCHANGED <<models, root, entity, deltaTime, game, trace>>

\* capsule.setTransformation(transformation): the capsule after the call
SetTransformationTest ==
  /\ call.op = "setTransformation"
  /\ call.pending
  /\ returned' = setTransformation(call.capsule, call.transformation)
  /\ call' = [call EXCEPT !.pending = FALSE]
  /\ UNCHANGED <<models, root, entity, deltaTime, game, trace>>

\* the first loop of handleCollisions(vertical) over the contacts of a query
CorrectionsTest ==
  /\ call.op = "corrections"
  /\ call.pending
  /\ returned' = Corrections(call.collisions, call.vertical, 1)
  /\ call' = [call EXCEPT !.pending = FALSE]
  /\ UNCHANGED <<models, root, entity, deltaTime, game, trace>>

\* handleCollisions(vertical) of an entity at the origin, from the contacts
\* of its query on
HandleCollisionsTest ==
  /\ call.op = "handleCollisions"
  /\ call.pending
  /\ returned' = handleCollisions_collisions(Entity(zero, PlayerHitbox), PlayerHitbox,
                                             call.vertical, call.collisions)
  /\ call' = [call EXCEPT !.pending = FALSE]
  /\ UNCHANGED <<models, root, entity, deltaTime, game, trace>>

PrimitiveNext ==
  \/ RayTriangleTest
  \/ OverlapsTest
  \/ SetTransformationTest
  \/ CorrectionsTest
  \/ HandleCollisionsTest

PrimitiveSpec == PrimitiveInit /\ [][PrimitiveNext]_vars

(***************************************************************************)
(* Game and Gameloop (core/game.ts, core/gameloop.ts).  The browser holds   *)
(* the promise the game awaits and the callbacks handed to                  *)
(* requestAnimationFrame: those registered during an animation frame run    *)
(* in the next one, all with the timestamp of their frame, and no click is  *)
(* handled between two callbacks of one frame.  No control is               *)
(* pressed and the camera is at rest; Math.random() is read as 0; the       *)
(* timers, the aggression and the audio are left out, so that the kill test *)
(* of the monster is an input of the frame.                                 *)
(***************************************************************************)
WALK_SPEED == 8

ROAM_SPEED == 8

\* new Player()
Player == Entity(zero, PlayerHitbox)

\* new Monster(model, target)
Monster == Entity(Vec(-70, 0, -60), MonsterHitbox)

\* milliseconds between two animation frames: 1/16 s and 1/8 s
FrameIntervals == {<<125, 2>>, <<125, 1>>}

\* Player.prePhysicsBehaviour with no control active, once aimDirection is set
Player_prePhysicsBehaviour_aimed(e) ==
  setMoveSpeed(setMoveDirection(e, apply(e.faceMatrix, zero)), Q(WALK_SPEED))

\* Player.prePhysicsBehaviour with no control active and the camera at rest
Player_prePhysicsBehaviour(e) ==
  Player_prePhysicsBehaviour_aimed(setAimDirection(e, lookVector(identity)))

\* Monster.prePhysicsBehaviour while roaming, with the angle 2 * PI * 0
Monster_prePhysicsBehaviour(e) ==
  setMoveDirection(setAimDirection(setMoveSpeed(e, Q(ROAM_SPEED)), Vec(1, 0, 0)), Vec(1, 0, 0))

\* Game.update with physics and rendering whether the game has ended or not
update_AlwaysTicks(entities, node, ended, deltaTimeArg) ==
  [entity |-> <<updatePhysics(Player_prePhysicsBehaviour(entities[1]), node, deltaTimeArg)[5].entity,
                updatePhysics(Monster_prePhysicsBehaviour(entities[2]), node, deltaTimeArg)[5].entity>>,
   trace |-> <<[op |-> "updatePhysics", of |-> "player", deltaTime |-> deltaTimeArg],
               [op |-> "updatePhysics", of |-> "monster", deltaTime |-> deltaTimeArg],
               [op |-> "render"]>>]

\* Game.update: the entities after the call, and the calls it made in order
update(entities, node, ended, deltaTimeArg) ==
  IF ~ended
  THEN [entity |-> <<updatePhysics(Player_prePhysicsBehaviour(entities[1]), node,
                                   deltaTimeArg)[5].entity,
                     updatePhysics(Monster_prePhysicsBehaviour(entities[2]), node,
                                   deltaTimeArg)[5].entity>>,
        trace |-> <<[op |-> "updatePhysics", of |-> "player", deltaTime |-> deltaTimeArg],
                    [op |-> "updatePhysics", of |-> "monster", deltaTime |-> deltaTimeArg],
                    [op |-> "render"]>>]
  ELSE [entity |-> entities, trace |-> <<[op |-> "render"]>>]

\* Gameloop.startLoop
startLoop(g) == [g EXCEPT !.running = TRUE, !.pending = @ + 1]

\* Gameloop.stopLoop
stopLoop(g) == [g EXCEPT !.running = FALSE, !.lastTime = <<>>, !.elapsedTime = Q(0)]

\* the page is loaded: Game.init awaits the loading screen
GameInitial ==
  /\ models = << <<BigFloor>> >>
  /\ root = <<>>
  /\ call = [op |-> "none"]
  /\ returned = <<>>
  /\ entity = <<>>
  /\ deltaTime = Q(0)
  /\ game = [awaiting |-> "loading", running |-> FALSE, lastTime |-> <<>>,
             elapsedTime |-> Q(0), fps |-> <<>>, ended |-> FALSE,
             pending |-> 0, firing |-> 0, now |-> Q(0), frames |-> 0,
             session |-> 0, deltaTimes |-> {}, updates |-> 0]
  /\ trace = <<>>

\* Game.init without the call of bvh.init
GameInit_NoTree ==
  /\ game.awaiting = "loading"
  /\ game' = [game EXCEPT !.awaiting = "menu"]
  /\ call' = [op |-> "init"]
  /\ trace' = <<>>
  /\ UNCHANGED <<models, root, returned, entity, deltaTime>>

\* Game.init once the loading screen is over: the tree is built and start()
\* runs up to its await of the menu
GameInit ==
  /\ game.awaiting = "loading"
  /\ root' = <<constructNode(Flatten(models))>>
  /\ game' = [game EXCEPT !.awaiting = "menu"]
  /\ call' = [op |-> "init"]
  /\ trace' = <<>>
  /\ UNCHANGED <<models, returned, entity, deltaTime>>

\* Game.start once play is pressed: the entities are created and the loop started
Start ==
  /\ game.awaiting = "menu"
  /\ game.firing = 0
  /\ entity' = <<Player, Monster>>
  /\ game' = [startLoop(game) EXCEPT !.awaiting = "none", !.ended = FALSE,
                                     !.session = @ + 1, !.deltaTimes = {}]
  /\ call' = [op |-> "start"]
  /\ trace' = <<>>
  /\ UNCHANGED <<models, root, returned, deltaTime>>

\* the browser begins an animation frame: the callbacks registered so far
\* will run with its timestamp
AnimationFrame ==
  /\ game.firing = 0
  /\ game.pending > 0
  /\ game.frames < MaxFrames
  /\ \E interval \in FrameIntervals :
       game' = [game EXCEPT !.now = RAdd(@, interval), !.firing = game.pending,
                            !.pending = 0, !.frames = @ + 1, !.updates = 0]
  /\ call' = [op |-> "animationFrame"]
  /\ trace' = <<>>
  /\ UNCHANGED <<models, root, returned, entity, deltaTime>>

\* Gameloop.loop from the call of update on, deltaTime being known; kill is
\* the kill test of Monster.postPhysicsBehaviour, which calls Game.end
Loop_deltaTime(deltaTimeArg, kill) ==
  /\ deltaTime' = deltaTimeArg
  /\ trace' = update(entity, root[1], game.ended, deltaTimeArg).trace
  /\ entity' = update(entity, root[1], game.ended, deltaTimeArg).entity
  /\ game' = [game EXCEPT !.lastTime = <<game.now>>,
                          !.elapsedTime = RAdd(@, deltaTimeArg),
                          !.fps = <<RDiv(Q(1), deltaTimeArg)>>,
                          !.ended = @ \/ kill,
                          !.awaiting = IF ~game.ended /\ kill THEN "endScreen" ELSE @,
                          !.deltaTimes = IF game.ended THEN @ ELSE @ \cup {deltaTimeArg},
                          !.updates = @ + 1,
                          !.firing = @ - 1,
                          !.pending = @ + 1]

\* Gameloop.loop(timestamp), a callback of the animation frame
Loop ==
  /\ game.firing > 0
  /\ call' = [op |-> "loop", timestamp |-> game.now]
  /\ IF ~game.running
     THEN /\ game' = [game EXCEPT !.firing = @ - 1]
          /\ trace' = <<>>
          /\ UNCHANGED <<entity, deltaTime>>
     ELSE \E kill \in (IF game.ended THEN {FALSE} ELSE BOOLEAN) :
            Loop_deltaTime(IF game.lastTime # <<>>
                           THEN RDiv(RSub(game.now, game.lastTime[1]), Q(1000))
                           ELSE Q(0),
                           kill)
  /\ UNCHANGED <<models, root, returned>>

\* Game.end once replay is pressed: the loop is stopped and start() runs up
\* to its await of the menu
Replay ==
  /\ game.awaiting = "endScreen"
  /\ game.firing = 0
  /\ game' = [stopLoop(game) EXCEPT !.awaiting = "menu"]
  /\ call' = [op |-> "end"]
  /\ trace' = <<>>
  /\ UNCHANGED <<models, root, returned, entity, deltaTime>>

GameNext == GameInit \/ Start \/ AnimationFrame \/ Loop \/ Replay

GameSpec == GameInitial /\ [][GameNext]_vars

(***************************************************************************)
(* Properties                                                               *)
(***************************************************************************)
\* the triangles the tree is built from
World == Flatten(models)

Range(seq) == {seq[i] : i \in 1..Len(seq)}

Count(x, seq) == Cardinality({i \in 1..Len(seq) : seq[i] = x})

\* the same elements, each as often, in any order
SameElements(a, b) ==
  /\ Len(a) = Len(b)
  /\ \A x \in Range(a) \cup Range(b) : Count(x, a) = Count(x, b)

\* the hit parameters of the ray/triangle test over all triangles of the world
BruteForceHits(ray) ==
  {Ray_getTriangleIntersection(ray, World[i])[1] :
     i \in {j \in 1..Len(World) : Ray_getTriangleIntersection(ray, World[j]) # <<>>}}

\* C1: a raycast reports a hit exactly when the ray/triangle test strikes some
\* triangle of the world, and the reported t is the least hit parameter of
\* all triangles.
C1_RaycastIsBruteForce ==
  call.op = "raycast" =>
    /\ (returned # <<>>) <=> (BruteForceHits(call.ray) # {})
    /\ returned # <<>> =>
         /\ returned[1].t \in BruteForceHits(call.ray)
         /\ \A h \in BruteForceHits(call.ray) : RLe(returned[1].t, h)

\* C2: collisionQuery returns the contacts that the capsule/triangle test
\* gives over every triangle of the world, without the tree.
C2_CollisionQueryIsBruteForce ==
  call.op = "collisionQuery" =>
    SameElements(returned, CollisionLoop(call.hitbox, World, 1))

ScenarioRay == Ray(Vec(0, 5, 0), Vec(0, -1, 0))

ScenarioHit == <<[t |-> Q(5), normal |-> Vec(0, 1, 0), position |-> Vec(0, 0, 0)]>>

\* C3 as stated: on the triangle (-10,0,-10), (10,0,-10), (0,0,10) the ray
\* from (0,5,0) along (0,-1,0) reports t = 5, position (0,0,0), normal (0,1,0).
C3_ScenarioReportsHit ==
  (call.op = "raycast" /\ call.ray = ScenarioRay /\ World = <<ScenarioTriangle>>)
    => returned = ScenarioHit

\* C3 amended: with the vertices in the order (-10,0,-10), (0,0,10), (10,0,-10)
\* the ray from (0,5,0) along (0,-1,0) reports t = 5, position (0,0,0) and
\* normal (0,1,0); in the order (-10,0,-10), (10,0,-10), (0,0,10) the normal
\* is (0,-1,0), the triangle is back-facing and no hit is reported.
C3_ScenarioByWinding ==
  (call.op = "raycast" /\ call.ray = ScenarioRay) =>
    /\ World = <<BigFloor>> => returned = ScenarioHit
    /\ World = <<ScenarioTriangle>> =>
         (returned = <<>> /\ ScenarioTriangle.normal = Vec(0, -1, 0))

C3_Witness ==
  /\ call.op = "raycast" /\ call.ray = ScenarioRay
  /\ World = <<BigFloor>>
  /\ returned = ScenarioHit

\* C6: a capsule whose padded bounds overlap the bounds of no triangle of the
\* world gets an empty contact list.
C6_OutsideAllBoundsIsEmpty ==
  (/\ call.op = "collisionQuery"
   /\ \A i \in 1..Len(World) : ~overlaps(call.hitbox.bounds, World[i].bounds))
    => returned = <<>>

\* the capsule/triangle test reports a contact whose overlap lies in [0, radius]
Touches(hitbox, triangle) ==
  LET r == Capsule_getTriangleIntersection(hitbox, triangle)
  IN  r[1] /\ RLe(Q(0), r[3]) /\ RLe(r[3], hitbox.radius)

\* the contact the capsule/triangle test gives
ContactOf(hitbox, triangle) ==
  LET r == Capsule_getTriangleIntersection(hitbox, triangle)
  IN  [normal |-> r[2], overlap |-> r[3]]

\* A and B are the two triangles of the world, their bounds are disjoint, and
\* the capsule touches A while its bounds are clear of those of B
TouchesOnly(A, B) ==
  /\ call.op = "collisionQuery"
  /\ Len(World) = 2 /\ {A, B} = Range(World) /\ A # B
  /\ ~overlaps(A.bounds, B.bounds)
  /\ Touches(call.hitbox, A)
  /\ ~overlaps(call.hitbox.bounds, B.bounds)

\* C7: in a tree over two triangles A and B with disjoint bounds, a capsule
\* that touches A and is clear of B gets exactly the contact of A.
C7_OnlyTheNearTriangle ==
  \A A \in Range(World), B \in Range(World) :
    TouchesOnly(A, B) => returned = <<ContactOf(call.hitbox, A)>>

C7_Witness ==
  /\ TouchesOnly(FloorA, FloorB)
  /\ World = <<FloorB, FloorA>>
  /\ Len(returned) = 1

\* the barycentric coordinates of point p in the triangle, from the Gram
\* matrix of its edges
Barycentric(triangle, p) ==
  LET w == subtract(p, triangle.v0)
      d00 == dot(triangle.edge1, triangle.edge1)
      d01 == dot(triangle.edge1, triangle.edge2)
      d11 == dot(triangle.edge2, triangle.edge2)
      d20 == dot(w, triangle.edge1)
      d21 == dot(w, triangle.edge2)
      denom == RSub(RMul(d00, d11), RMul(d01, d01))
  IN  [u |-> RDiv(RSub(RMul(d11, d20), RMul(d01, d21)), denom),
       v |-> RDiv(RSub(RMul(d00, d21), RMul(d01, d20)), denom)]

\* the parameter at which the line of the ray meets the plane of the triangle
PlaneParameter(ray, triangle) ==
  RDiv(dot(subtract(triangle.v0, ray.origin), triangle.edgeCross),
       dot(ray.direction, triangle.edgeCross))

\* the ray runs against the winding normal and meets the plane, at a
\* parameter t >= 0, in a point of the triangle
StrikesFront(ray, triangle) ==
  LET t == PlaneParameter(ray, triangle)
      b == Barycentric(triangle, getPoint(ray, t))
  IN  /\ RLt(dot(ray.direction, triangle.edgeCross), Q(0))
      /\ RGe(t, Q(0))
      /\ RGe(b.u, Q(0)) /\ RGe(b.v, Q(0)) /\ RLe(RAdd(b.u, b.v), Q(1))

\* C8: getTriangleIntersection returns t exactly when the ray runs against
\* the winding normal and getPoint(t), t >= 0, lies in the plane of the
\* triangle with barycentric coordinates u >= 0, v >= 0, u + v <= 1.
C8_HitIsInsideTriangle ==
  (call.op = "getTriangleIntersection" /\ ~call.pending) =>
    /\ (returned # <<>>) <=> StrikesFront(call.ray, call.triangle)
    /\ returned # <<>> =>
         LET p == getPoint(call.ray, returned[1])
             b == Barycentric(call.triangle, p)
         IN  /\ RGe(returned[1], Q(0))
             /\ dot(subtract(p, call.triangle.v0), call.triangle.edgeCross) = Q(0)
             /\ RGe(b.u, Q(0)) /\ RGe(b.v, Q(0)) /\ RLe(RAdd(b.u, b.v), Q(1))
             /\ RGt(dot(multiply(call.ray.direction, Q(-1)), call.triangle.edgeCross), Q(0))

\* a returned hit strictly inside the triangle and strictly ahead of the origin
C8_Witness ==
  /\ call.op = "getTriangleIntersection" /\ ~call.pending
  /\ returned # <<>>
  /\ RGt(returned[1], Q(0))
  /\ LET b == Barycentric(call.triangle, getPoint(call.ray, returned[1]))
     IN  RGt(b.u, Q(0)) /\ RGt(b.v, Q(0)) /\ RLt(RAdd(b.u, b.v), Q(1))

\* the boxes are separated along the axis
Separated(a, b, axis) == RGt(a.min[axis], b.max[axis]) \/ RGt(b.min[axis], a.max[axis])

\* C9: overlaps returns false exactly when the boxes are separated along at
\* least one axis.
C9_OverlapsIsSeparatingAxisTest ==
  (call.op = "overlaps" /\ ~call.pending) =>
    (returned = FALSE <=> \E axis \in {"x", "y", "z"} : Separated(call.this, call.bounds, axis))

\* boxes separated along x only, reported as not overlapping
C9_Witness ==
  /\ call.op = "overlaps" /\ ~call.pending
  /\ Separated(call.this, call.bounds, "x")
  /\ ~Separated(call.this, call.bounds, "y")
  /\ ~Separated(call.this, call.bounds, "z")
  /\ returned = FALSE

\* C10: the tree built from no triangle has a root that is a leaf holding an
\* empty triangle list, and queries on it report no hit and no contact.
C10_EmptyWorldGivesEmptyLeaf ==
  (root # <<>> /\ World = <<>>) =>
    /\ root[1].left = <<>> /\ root[1].right = <<>>
    /\ root[1].triangles = << <<>> >>
    /\ call.op \in {"raycast", "collisionQuery"} => returned = <<>>

\* the bounds of the hitbox at the entity's present position
HitboxBounds(e) ==
  setTransformation(e.hitbox, matrixMultiply(fromPosition(e.position), e.faceMatrix)).bounds

\* the hitbox lies wholly below the floor y = 0 and the entity is falling
FallingBelowFloor(e) ==
  /\ RLt(HitboxBounds(e).max.y, Q(0))
  /\ ~e.onFloor
  /\ RGt(e.fallSpeed, Q(0))

\* C4: an entity that starts above the floor comes to onFloor with fallSpeed 0
\* whatever its initial fall speed; it is never found below the floor, still
\* falling.
C4_NeverFallsThroughFloor ==
  entity # <<>> => ~FallingBelowFloor(entity[1])

\* the last tick ended with the entity on the floor, not falling, not moving
AtRest ==
  /\ entity # <<>>
  /\ call.op = "updatePhysics"
  /\ entity[1].onFloor
  /\ entity[1].fallSpeed = Q(0)
  /\ entity[1].moveSpeed = Q(0)

\* C5: once a tick has ended with onFloor true and fallSpeed 0, every later
\* tick ends with onFloor true, fallSpeed 0 and the same position.y.
C5_RestIsStable ==
  [][(AtRest /\ call'.op = "updatePhysics") =>
       /\ entity'[1].onFloor
       /\ entity'[1].fallSpeed = Q(0)
       /\ entity'[1].position.y = entity[1].position.y]_vars

\* the hitbox of e, transformed afresh to position
HitboxAt(e, position) ==
  setTransformation(e.hitbox, matrixMultiply(fromPosition(position), e.faceMatrix))

\* the last step was a physics tick: entity is the entity before it in an
\* unprimed use and trace' lists what the tick did
Ticked == call'.op = "updatePhysics" /\ trace' # trace

\* C17: each updatePhysics call runs four phases in order: the fall, by
\* -fallSpeed*dt - g*dt^2/2 with the fall speed from before the step, which
\* only then grows by g*dt; the resolution of the vertical-class contacts at
\* the new position; the move by moveDirection*moveSpeed*dt; the resolution
\* of the other contacts, after a fresh transform of the capsule and a fresh
\* query of the tree.
C17_FourPhasesInOrder ==
  [][Ticked =>
       /\ Len(trace') = 5
       /\ trace'[1].entity.position =
            add(entity[1].position,
                Vector3(Q(0),
                        RSub(RNeg(RMul(entity[1].fallSpeed, deltaTime)),
                             RDiv(RMul(Q(GRAV_ACCEL), RMul(deltaTime, deltaTime)), Q(2))),
                        Q(0)))
       /\ trace'[1].entity.fallSpeed = RAdd(entity[1].fallSpeed, RMul(Q(GRAV_ACCEL), deltaTime))
       /\ trace'[2].vertical
       /\ trace'[2].entity.hitbox = HitboxAt(entity[1], trace'[1].entity.position)
       /\ trace'[2].collisions = collisionQuery(root[1], trace'[2].entity.hitbox)
       /\ trace'[4].entity.position =
            add(trace'[3].entity.position,
                multiply(entity[1].moveDirection, RMul(entity[1].moveSpeed, deltaTime)))
       /\ ~trace'[5].vertical
       /\ trace'[5].entity.hitbox = HitboxAt(entity[1], trace'[4].entity.position)
       /\ trace'[5].collisions = collisionQuery(root[1], trace'[5].entity.hitbox)
       /\ entity'[1] = trace'[5].entity]_vars

\* a tick of a falling, moving entity that met the floor in its second phase
\* and the wall in its fourth
C17_Witness ==
  /\ call.op = "updatePhysics"
  /\ trace[1].entity.fallSpeed # Q(0)
  /\ trace[2].collided
  /\ trace[4].entity.position # trace[3].entity.position
  /\ trace[5].collided

\* a contact normal is of the vertical class
SomeVertical(collisions) == \E i \in 1..Len(collisions) : isVertical(collisions[i].normal)

\* C18: after the vertical pass fallSpeed is 0 if a vertical-class correction
\* was applied and otherwise keeps its integrated value; onFloor is true
\* exactly when such a correction was applied and the net correction has a
\* strictly positive component along world-up.
C18_VerticalPassSetsFallSpeedAndOnFloor ==
  call.op = "updatePhysics" =>
    /\ trace[3].entity.fallSpeed =
         (IF SomeVertical(trace[2].collisions) THEN Q(0) ELSE trace[1].entity.fallSpeed)
    /\ trace[3].entity.onFloor =
         (SomeVertical(trace[2].collisions) /\ RGt(trace[2].correction.y, Q(0)))

\* a tick whose vertical pass pushed the entity down, out of the ceiling
C18_Witness ==
  /\ call.op = "updatePhysics"
  /\ SomeVertical(trace[2].collisions)
  /\ RLt(trace[2].correction.y, Q(0))
  /\ ~trace[3].entity.onFloor
  /\ trace[3].entity.fallSpeed = Q(0)

\* C19: the move and the resolution of the other contacts leave fallSpeed and
\* onFloor as the vertical pass set them, whatever wall contacts are found.
C19_HorizontalPassKeepsFallSpeedAndOnFloor ==
  call.op = "updatePhysics" =>
    /\ entity[1].fallSpeed = trace[3].entity.fallSpeed
    /\ entity[1].onFloor = trace[3].entity.onFloor

\* a tick that met the wall while the entity was in the air, falling
C19_Witness ==
  /\ call.op = "updatePhysics"
  /\ trace[5].collided
  /\ RLt(trace[5].correction.x, Q(0))
  /\ ~entity[1].onFloor
  /\ RGt(entity[1].fallSpeed, Q(0))

\* C12: once BVH.init has returned, no raycast and no collisionQuery changes
\* the tree: the bounds, the children and the triangle list of every node are
\* after the query what they were before it.
C12_QueriesLeaveTreeUnchanged ==
  [][call'.op \in {"raycast", "collisionQuery"} => root' = root]_vars

\* a query that went down a tree with two children and found a contact
C12_Witness ==
  /\ root # <<>>
  /\ root[1].left # <<>>
  /\ root[1].right # <<>>
  /\ call.op = "collisionQuery"
  /\ returned # <<>>

\* C15: overlaps is symmetric: a.overlaps(b) equals b.overlaps(a).
C15_OverlapsIsSymmetric ==
  (call.op = "overlaps" /\ ~call.pending) => returned = overlaps(call.bounds, call.this)

\* a small box found to overlap the larger box that holds it
C15_Witness ==
  /\ call.op = "overlaps" /\ ~call.pending
  /\ call.this.dimensions # call.bounds.dimensions
  /\ call.this.min # call.bounds.min
  /\ call.this.max # call.bounds.max
  /\ returned = TRUE

\* setTransformation has been called with the identity
IdentityApplied ==
  call.op = "setTransformation" /\ ~call.pending /\ call.transformation = identity

\* the box of the two local endpoints of the capsule, padded by its radius
LocalBox(capsule) == fromPoints(<<capsule.start, capsule.end>>, capsule.radius)

\* the coordinates of the point are single-precision numbers
IsSingle(point) ==
  fround(point.x) = point.x /\ fround(point.y) = point.y /\ fround(point.z) = point.z

\* C16: setTransformation with the identity yields the bounds the capsule
\* has when constructed with no transform, that is the box of its two local
\* endpoints padded by the radius.
C16_IdentityGivesLocalBox ==
  IdentityApplied =>
    /\ returned.bounds = Capsule(call.capsule.start, call.capsule.end, call.capsule.radius).bounds
    /\ returned.bounds = LocalBox(call.capsule)

\* C16, amended: setTransformation with the identity yields the bounds the
\* capsule has when constructed with no transform; they are the box of the
\* two local endpoints padded by the radius when the coordinates of the
\* endpoints are single-precision numbers.
C16_IdentityGivesConstructionBounds ==
  IdentityApplied =>
    /\ returned.bounds = Capsule(call.capsule.start, call.capsule.end, call.capsule.radius).bounds
    /\ (IsSingle(call.capsule.start) /\ IsSingle(call.capsule.end)) =>
         returned.bounds = LocalBox(call.capsule)

\* the hitbox of the monster, moved and then set back to the identity: its
\* bounds are those of its construction and not the padded box of its endpoints
C16_Witness ==
  /\ IdentityApplied
  /\ call.capsule.transformation # identity
  /\ call.capsule.bounds # returned.bounds
  /\ ~IsSingle(call.capsule.end)
  /\ returned.bounds # LocalBox(call.capsule)

\* the angle of the normal to world-up is at most the threshold, or at least
\* 180 degrees minus the threshold
InVerticalClass(normal) ==
  \/ RGe(dot(normal, yAxis), CosMaxVerticalSlope)
  \/ RLe(dot(normal, yAxis), RNeg(CosMaxVerticalSlope))

RECURSIVE CorrectionsOfClass(_, _, _)
\* the corrections of the contacts whose class is the given one, from contact i on
CorrectionsOfClass(collisions, vertical, i) ==
  IF i > Len(collisions) THEN <<>>
  ELSE (IF InVerticalClass(collisions[i].normal) = vertical
        THEN <<multiply(collisions[i].normal, collisions[i].overlap)>>
        ELSE <<>>)
       \o CorrectionsOfClass(collisions, vertical, i + 1)

\* C20: the slope classification partitions the contacts: handleCollisions(true)
\* selects the contacts whose normal is within the threshold of world-up or
\* of world-down, handleCollisions(false) all the others; each contact is
\* selected by exactly one of the two.
C20_ClassificationPartitionsContacts ==
  (call.op = "corrections" /\ ~call.pending) =>
    /\ returned = CorrectionsOfClass(call.collisions, call.vertical, 1)
    /\ Len(returned) + Len(Corrections(call.collisions, ~call.vertical, 1))
         = Len(call.collisions)

\* two contacts on either side of the threshold, of which the wall pass took
\* the steeper one
C20_Witness ==
  /\ call.op = "corrections" /\ ~call.pending
  /\ ~call.vertical
  /\ Len(call.collisions) = 2
  /\ call.collisions[1].normal = Vector3(<<-60, 61>>, <<11, 61>>, Q(0))
  /\ call.collisions[2].normal = Vector3(<<-84, 85>>, <<13, 85>>, Q(0))
  /\ returned = <<multiply(call.collisions[2].normal, call.collisions[2].overlap)>>

\* Game.update ran in the last step
Updated == call.op = "loop" /\ trace # <<>>

\* the tree is built
Built == root # <<>>

\* C11: in the first session and in every restarted one BVH.init has
\* completed before the game loop is started: whenever the loop has been
\* started, a callback of it is registered or runs, the entities exist or an
\* update frame with its physics ticks has run, the tree is built.
C11_TreeBuiltBeforeLoopStarts ==
  (\/ game.session > 0
   \/ game.running
   \/ game.pending > 0
   \/ game.firing > 0
   \/ entity # <<>>
   \/ Updated) => Built

\* an update frame with its physics ticks in a restarted session, over the tree
\* built at load
C11_Witness ==
  /\ game.session = 2
  /\ Updated
  /\ Len(trace) = 3
  /\ Built
  /\ root[1] = constructNode(Flatten(models))

\* the calls of one physics tick followed by the rendering, for some deltaTime
TickThenRender(calls) ==
  /\ Len(calls) = 3
  /\ calls[1].op = "updatePhysics" /\ calls[1].of = "player"
  /\ calls[2].op = "updatePhysics" /\ calls[2].of = "monster"
  /\ calls[1].deltaTime = calls[2].deltaTime
  /\ calls[3].op = "render"

\* C13 as stated: every frame rendered by the running loop contains exactly
\* one physics tick before canvas.render, the player's updatePhysics before
\* the monster's.
C13_OneTickPerRenderedFrame == Updated => TickThenRender(trace)

\* C13: every call of Game.update by the running loop ends with
\* canvas.render; while the game has not ended the render is preceded by
\* exactly one physics tick, the player's updatePhysics running to completion
\* before the monster's; once the game has ended the frame is rendered with
\* no physics tick.
C13_OneTickPerFrameUntilEnded ==
  [][(call'.op = "loop" /\ game.running) =>
       IF game.ended THEN trace' = <<[op |-> "render"]>> /\ entity' = entity
       ELSE TickThenRender(trace')]_vars

\* a frame with its tick, and a later frame of the end screen rendered with none
C13_Witness ==
  /\ Updated
  /\ game.ended
  /\ trace = <<[op |-> "render"]>>
  /\ game.deltaTimes # {}

\* C14 as stated: the deltaTime passed to updatePhysics is the same in all
\* frames of a session, the first frame after the loop is started included.
C14_SameDeltaTimeInEveryFrame == Cardinality(game.deltaTimes) <= 1

\* C30 as stated: at most one chain of frame callbacks is live, so that
\* Game.update runs at most once in every animation frame, whatever the
\* interleaving of the frames with Game.end, stopLoop, the menu and startLoop.
C30_AtMostOneUpdatePerFrame == game.updates <= 1

RECURSIVE Nodes(_)
\* the nodes of the subtree of a node
Nodes(node) ==
  {node} \cup (IF node.left # <<>> THEN Nodes(node.left[1]) ELSE {})
         \cup (IF node.right # <<>> THEN Nodes(node.right[1]) ELSE {})

RECURSIVE SubtreeTriangles(_)
\* the triangles stored in the subtree of a node, left to right
SubtreeTriangles(node) ==
  (IF node.left # <<>> THEN SubtreeTriangles(node.left[1]) ELSE <<>>)
    \o (IF node.right # <<>> THEN SubtreeTriangles(node.right[1]) ELSE <<>>)
    \o (IF node.triangles # <<>> THEN node.triangles[1] ELSE <<>>)

\* all centroids of the list coincide
CentroidsCoincide(triangles) ==
  \A i, j \in 1..Len(triangles) : triangles[i].centroid = triangles[j].centroid

\* a leaf holding exactly the given list
IsLeafOf(node, triangles) ==
  node.left = <<>> /\ node.right = <<>> /\ node.triangles = <<triangles>>

\* an internal node whose two children each took at least one of the given
\* triangles, and so fewer than all of them
IsProperSplitOf(node, triangles) ==
  /\ node.triangles = <<>>
  /\ node.left # <<>> /\ node.right # <<>>
  /\ Len(SubtreeTriangles(node.left[1])) >= 1
  /\ Len(SubtreeTriangles(node.right[1])) >= 1
  /\ Len(SubtreeTriangles(node.left[1])) + Len(SubtreeTriangles(node.right[1]))
       = Len(triangles)

\* the node is what the claim says constructNode makes of the given list
BuiltAsStated(node, triangles) ==
  IF Len(triangles) = 1 \/ CentroidsCoincide(triangles)
  THEN IsLeafOf(node, triangles)
  ELSE IsProperSplitOf(node, triangles)

\* C24 as stated: constructNode makes a node a leaf holding its full triangle
\* list when one triangle remains or all centroids coincide, and otherwise
\* splits so that each partition holds at least one triangle and each
\* recursive call receives strictly fewer triangles, for every finite
\* triangle set.
C24_LeafOrProperSplit ==
  root # <<>> =>
    /\ BuiltAsStated(root[1], World)
    /\ \A n \in Nodes(root[1]) : BuiltAsStated(n, SubtreeTriangles(n))

\* C25 as stated: every node of the tree is an internal node with exactly two
\* children and no triangle list, or a leaf with a triangle list and no
\* children.
C25_InternalOrLeaf ==
  root # <<>> =>
    \A n \in Nodes(root[1]) :
      \/ n.left # <<>> /\ n.right # <<>> /\ n.triangles = <<>>
      \/ n.left = <<>> /\ n.right = <<>> /\ n.triangles # <<>>

\* box a lies inside box b
Inside(a, b) ==
  \A axis \in {"x", "y", "z"} : RGe(a.min[axis], b.min[axis]) /\ RLe(a.max[axis], b.max[axis])

\* the children of a node
Children(node) ==
  (IF node.left # <<>> THEN {node.left[1]} ELSE {})
    \cup (IF node.right # <<>> THEN {node.right[1]} ELSE {})

\* the least and the greatest coordinate on an axis over the vertices of the
\* triangles
VertexCoords(triangles, axis) ==
  UNION {{triangles[i].v0[axis], triangles[i].v1[axis], triangles[i].v2[axis]} :
           i \in 1..Len(triangles)}

\* the box is the axis-aligned box of the vertices of the triangles
IsBoxOf(bounds, triangles) ==
  \A axis \in {"x", "y", "z"} :
    /\ \A c \in VertexCoords(triangles, axis) : RLe(bounds.min[axis], c) /\ RLe(c, bounds.max[axis])
    /\ triangles # <<>> =>
         /\ bounds.min[axis] \in VertexCoords(triangles, axis)
         /\ bounds.max[axis] \in VertexCoords(triangles, axis)

\* C28: the bounds of every node of the tree is the axis-aligned box of all
\* vertices of the triangles stored in its subtree; every child's box lies
\* inside its parent's box, and every triangle lies inside the box of every
\* node whose subtree stores it.
C28_BoundsBoxTheSubtree ==
  root # <<>> =>
    \A n \in Nodes(root[1]) :
      /\ IsBoxOf(n.bounds, SubtreeTriangles(n))
      /\ \A c \in Children(n) : Inside(c.bounds, n.bounds)
      /\ \A i \in 1..Len(SubtreeTriangles(n)) :
           Inside(SubtreeTriangles(n)[i].bounds, n.bounds)

\* a tree of two levels below the root, built from three triangles
C28_Witness ==
  /\ root # <<>>
  /\ World = <<FloorA, FloorMid, FloorB>>
  /\ root[1].right # <<>>
  /\ root[1].right[1].left # <<>>
  /\ root[1].right[1].bounds = fromPoints(Vertices(<<FloorA, FloorMid>>), Q(0))
  /\ root[1].bounds # root[1].right[1].bounds

\* a filter that accepts the box of every node of a tree over the worlds
AcceptAll ==
  CapsuleFilter([bounds |-> Bounds(Vec(-100, -100, -100), Vec(100, 100, 100))])

\* C29: the leaves partition the input: the triangle lists of the leaves
\* hold the triangles supplied in the models, each exactly once and no other,
\* and a traversal whose filter accepts every box returns each input triangle
\* exactly once.
C29_LeavesPartitionTheInput ==
  root # <<>> =>
    /\ SameElements(SubtreeTriangles(root[1]), World)
    /\ \A n \in Nodes(root[1]) : n.triangles # <<>> => n.left = <<>> /\ n.right = <<>>
    /\ SameElements(traverse(AcceptAll, root[1]), World)

\* three triangles in two models, of which two share a leaf
C29_Witness ==
  /\ root # <<>>
  /\ models = << <<FloorB>>, <<FloorA, WallA>> >>
  /\ \E n \in Nodes(root[1]) : n.triangles = << <<FloorA, WallA>> >>
  /\ Len(traverse(AcceptAll, root[1])) = 3

\* the candidate triangles of a ray
Candidates(ray) == getCandidateTriangles(root[1], RayFilter(ray))

\* the candidates the ray/triangle test strikes with a parameter t >= 0
Struck(ray) ==
  {i \in 1..Len(Candidates(ray)) :
     /\ Ray_getTriangleIntersection(ray, Candidates(ray)[i]) # <<>>
     /\ RGe(Ray_getTriangleIntersection(ray, Candidates(ray)[i])[1], Q(0))}

\* C23 as stated: raycast keeps the minimum non-negative hit: whenever a
\* candidate triangle is struck with t >= 0, a hit at exactly t = 0
\* included, it returns the smallest such t with the normal of its triangle
\* and the position origin + direction * t; it returns no hit only when no
\* candidate is struck.
C23_KeepsMinimumNonNegativeHit ==
  call.op = "raycast" =>
    /\ (returned = <<>>) <=> (Struck(call.ray) = {})
    /\ returned # <<>> =>
         /\ \A i \in Struck(call.ray) :
              RLe(returned[1].t, Ray_getTriangleIntersection(call.ray, Candidates(call.ray)[i])[1])
         /\ \E i \in Struck(call.ray) :
              /\ returned[1].t = Ray_getTriangleIntersection(call.ray, Candidates(call.ray)[i])[1]
              /\ returned[1].normal = Candidates(call.ray)[i].normal
         /\ returned[1].position = getPoint(call.ray, returned[1].t)

\* the candidate triangles of a capsule
CapsuleCandidates(hitbox) == getCandidateTriangles(root[1], CapsuleFilter(hitbox))

\* the point of the capsule's axis that the capsule/triangle test chooses
AxisPoint(capsule, triangle) ==
  closestPointTo(capsule.line,
    IF getPlaneIntersection(capsule.line, triangle.v0, triangle.normal, FALSE) # <<>>
    THEN closestPoint(triangle,
           getPlaneIntersection(capsule.line, triangle.v0, triangle.normal, FALSE)[1],
           TRUE, <<>>)[1]
    ELSE triangle.centroid)

\* the triangle's closest point to the axis point: <<point, contained, distance>>,
\* the distance of a contained point being signed by the side of the plane
Nearest(capsule, triangle) == closestPoint(triangle, AxisPoint(capsule, triangle), FALSE, <<>>)

\* the distance between the axis point and the triangle's closest point
NearestDistance(capsule, triangle) ==
  IF Nearest(capsule, triangle)[2]
  THEN <<Abs(Nearest(capsule, triangle)[3][1]), Nearest(capsule, triangle)[3][2]>>
  ELSE Nearest(capsule, triangle)[3]

\* the axis point is on the back side of the triangle's plane
BehindPlane(capsule, triangle) ==
  RLt(dot(subtract(AxisPoint(capsule, triangle), triangle.v0), triangle.normal), Q(0))

\* what the capsule/triangle test reports according to the claim
StatedIntersection(capsule, triangle) ==
  IF RGt(NearestDistance(capsule, triangle), capsule.radius) THEN <<FALSE>>
  ELSE <<TRUE,
         IF Nearest(capsule, triangle)[2] THEN triangle.normal
         ELSE unit(subtract(AxisPoint(capsule, triangle), Nearest(capsule, triangle)[1])),
         RSub(capsule.radius, NearestDistance(capsule, triangle))>>

\* C22 as stated: the capsule/triangle test reports no collision whenever the
\* distance between the chosen axis point and the triangle's closest point
\* exceeds the radius, on either side of the plane; otherwise it reports
\* overlap = radius - distance, which lies in [0, radius], with the triangle
\* normal when the closest point is contained and the unit direction from the
\* boundary point to the axis point otherwise.
C22_OverlapIsRadiusMinusDistance ==
  call.op = "collisionQuery" =>
    \A i \in 1..Len(CapsuleCandidates(call.hitbox)) :
      /\ Capsule_getTriangleIntersection(call.hitbox, CapsuleCandidates(call.hitbox)[i])
           = StatedIntersection(call.hitbox, CapsuleCandidates(call.hitbox)[i])
      /\ Capsule_getTriangleIntersection(call.hitbox, CapsuleCandidates(call.hitbox)[i])[1] =>
           /\ RGe(Capsule_getTriangleIntersection(call.hitbox,
                                                  CapsuleCandidates(call.hitbox)[i])[3], Q(0))
           /\ RLe(Capsule_getTriangleIntersection(call.hitbox,
                                                  CapsuleCandidates(call.hitbox)[i])[3],
                  call.hitbox.radius)

\* the pass recorded in a step of the trace found no contact of its class
NoContactOfClass(pass) == Corrections(pass.collisions, pass.vertical, 1) = <<>>

\* the pass left the position where the step before it had put it and
\* returned [false, zero]
PassIsNoOp(before, pass) ==
  /\ pass.entity.position = before.entity.position
  /\ ~pass.collided
  /\ pass.correction = zero

\* C26: when a resolution pass finds no contact of its class, handleCollisions
\* leaves the position unchanged and reports that no collision occurred, and
\* after the vertical pass fallSpeed keeps its integrated value.
C26_NoContactIsNoOp ==
  call.op = "updatePhysics" =>
    /\ NoContactOfClass(trace[2]) =>
         /\ PassIsNoOp(trace[1], trace[2])
         /\ trace[3].entity.fallSpeed = trace[1].entity.fallSpeed
    /\ NoContactOfClass(trace[5]) =>
         /\ PassIsNoOp(trace[4], trace[5])
         /\ entity[1].fallSpeed = trace[4].entity.fallSpeed

\* a tick of an entity standing on the floor, whose wall pass met the floor
\* contact alone and left the entity where the move had put it
C26_Witness ==
  /\ call.op = "updatePhysics"
  /\ trace[2].collided
  /\ trace[5].collisions # <<>>
  /\ NoContactOfClass(trace[5])
  /\ entity[1].position = trace[4].entity.position
  /\ trace[4].entity.position # trace[3].entity.position

\* handleCollisions was applied to the contact list of the call
Resolved == call.op = "handleCollisions" /\ ~call.pending

\* the corrections of the contacts of the pass's class
ClassCorrections == CorrectionsOfClass(call.collisions, call.vertical, 1)

\* the vectors of greatest magnitude of a list; the zero vector for no vector
GreatestOf(vectors) ==
  IF vectors = <<>> THEN {zero}
  ELSE {v \in Range(vectors) : \A w \in Range(vectors) : RGe(magnitude(v), magnitude(w))}

\* the components of the corrections orthogonal to the primary correction
OrthogonalTo(corrections, primary) ==
  [i \in 1..Len(corrections) |-> getOrthogonalComponent(corrections[i], primary)]

\* the components of the corrections parallel to primary x secondary
ParallelToNormalOf(corrections, primary, secondary) ==
  [i \in 1..Len(corrections) |-> getParallelComponent(corrections[i], cross(primary, secondary))]

\* C21: handleCollisions moves the position by primary + secondary +
\* tertiary: primary a correction (normal * overlap) of greatest magnitude
\* among the contacts of the class, secondary a greatest component orthogonal
\* to primary among all corrections, tertiary a greatest component parallel
\* to primary x secondary among all corrections; nothing else contributes.
C21_DeltaIsPrimarySecondaryTertiary ==
  Resolved =>
    /\ returned.entity.position = add(zero, returned.correction)
    /\ \E primary \in GreatestOf(ClassCorrections) :
         \E secondary \in GreatestOf(OrthogonalTo(ClassCorrections, primary)) :
           \E tertiary \in GreatestOf(ParallelToNormalOf(ClassCorrections, primary, secondary)) :
             returned.correction = add(add(primary, secondary), tertiary)

\* three wall contacts in three independent directions: the delta is the
\* deepest correction, what the wall facing +z adds across it, and what the
\* leaning wall adds along y
C21_Witness ==
  /\ Resolved
  /\ ~call.vertical
  /\ Len(ClassCorrections) = 3
  /\ ClassCorrections[1] = Vec(-1, 0, 0)
  /\ returned.correction = Vector3(Q(-1), <<13, 170>>, <<1, 2>>)
  /\ returned.entity.position = returned.correction

\* all vectors of the list are parallel or anti-parallel to one direction
Collinear(vectors) ==
  \A i, j \in 1..Len(vectors) : cross(vectors[i], vectors[j]) = zero

\* C27: when all corrections of a pass are collinear, the secondary and the
\* tertiary term are zero vectors and the applied delta is the single
\* correction of greatest magnitude.
C27_CollinearGivesPrimaryAlone ==
  (Resolved /\ ClassCorrections # <<>> /\ Collinear(ClassCorrections)) =>
    /\ returned.correction \in GreatestOf(ClassCorrections)
    /\ returned.entity.position = returned.correction
    /\ \A i \in 1..Len(ClassCorrections) :
         /\ getOrthogonalComponent(ClassCorrections[i], returned.correction) = zero
         /\ getParallelComponent(ClassCorrections[i], cross(returned.correction, zero)) = zero

\* three wall contacts along x, one of them facing the other way: the delta
\* is the deepest of them
C27_Witness ==
  /\ Resolved
  /\ ~call.vertical
  /\ Len(ClassCorrections) = 3
  /\ Collinear(ClassCorrections)
  /\ Vector3(<<1, 4>>, Q(0), Q(0)) \in Range(ClassCorrections)
  /\ Vector3(<<-1, 2>>, Q(0), Q(0)) \in Range(ClassCorrections)
  /\ returned.correction = Vec(-1, 0, 0)

====
